---- MODULE Spec2Model ----
(***************************************************************************)
(* Model of the SDH dashboard core: the indicator classification engine    *)
(* (UnitSystem), the CSV ingestion pipeline (processCSVData), the district *)
(* layer of the map (LeafletMap), and the load, upload and save handlers   *)
(* of the dashboard against the indicators table of the store, its CSV     *)
(* export, and its summary stats, status filters and indicator cards.      *)
(*                                                                         *)
(* A JavaScript number|null|undefined is a record [k, n]: k is "num" for a *)
(* number (n its value), "nan", "null" or "undef" otherwise (n = 0).       *)
(* Numbers are integers; a progress percentage is an exact fraction        *)
(* [num, den] in lowest terms, so 62.5 is [num |-> 125, den |-> 2].        *)
(***************************************************************************)
EXTENDS Integers, Sequences, FiniteSets, TLC

VARIABLES
    args,            \* UnitSystem call: [current, baseline, target, indicatorType, numberOfYears]
    statusResult,    \* value returned by calculateStatus(args), "none" before the call
    progressResult,  \* value returned by calculateProgress(args), NoFrac before the call
    data,            \* processCSVData: the input rows (any[])
    rowIdx,          \* processCSVData: index of the next row of data.forEach
    processedData,   \* processCSVData: the indicators built so far, in insertion order
    postIdx,         \* processCSVData: index of the next indicator of the post-processing loop
    phase,           \* processCSVData: "running" | "returned" | "threw"; "idle" when not running
    selectedYear,    \* MapView: the year of the dropdown, '' before the first render
    mapLayer,        \* LeafletMap: the GeoJSON layer drawn by the last render
    firstRun,        \* the rows and the result of an earlier call of processCSVData
    store,           \* the records of the indicators table of the store
    indicators,      \* SDHDashboard: the in-memory indicator list
    selectedDomain,  \* SDHDashboard: the selected domain, '' when none
    isLoading,       \* SDHDashboard: the loading flag
    upload,          \* handleFileUpload: its position, locals, requests sent and alerts
    save,            \* handleSaveIndicator: its position, the record in flight and its alert
    savedPolicies,   \* per id, the relevantPolicies last written by handleSaveIndicator
    load,            \* loadIndicators: its position and the answer of the store
    selectedIndicator, \* SDHDashboard: the indicator of the detail view, <<>> for null
    isEditing,       \* SDHDashboard: the edit form is open
    otherUpload,     \* handleFileUpload: a second import in flight, as upload
    dashboard,       \* SDHDashboard: the status filter, the summary stats and the cards rendered
    csvContent,      \* handleDownloadCSV: the lines of the last download, <<>> when none
    fileCount,       \* the number of files chosen in the file input so far
    editCount        \* the number of edit forms submitted through SubmitEdit so far

vars == <<args, statusResult, progressResult, data, rowIdx, processedData, postIdx, phase,
          selectedYear, mapLayer, firstRun, store, indicators, selectedDomain, isLoading,
          upload, save, savedPolicies, load, selectedIndicator, isEditing, otherUpload,
          dashboard, csvContent, fileCount, editCount>>

unitVars == <<args, statusResult, progressResult>>
csvVars == <<data, rowIdx, processedData, postIdx, phase>>
mapVars == <<selectedYear, mapLayer>>

\* the state outside UnitSystem and processCSVData
storeVars == <<store, indicators, selectedDomain, isLoading, upload, save, savedPolicies>>

\* the mount effect, the detail view, a second import, the cards and the download
pageVars == <<otherUpload, dashboard, csvContent, fileCount, editCount>>
viewVars == <<load, selectedIndicator, isEditing, pageVars>>
appVars == <<mapVars, firstRun, storeVars, viewVars>>

---------------------------------------------------------------------------
(* Bounds *)

MaxVal == 4
MaxYears == 3
MaxRows == 2
MaxSeriesRows == 3
MaxDisaggRows == 3
MaxIdRows == 3
MaxMapRows == 3
MaxPermRows == 3
MaxUploadRows == 2
MaxUploadRecords == 101
MaxImports == 2
MaxEdits == 1
MaxCards == 2
MaxFrameRows == 3

\* const BATCH_SIZE = 50
BATCH_SIZE == 50

\* new Date().getFullYear()
ThisYear == 2026

---------------------------------------------------------------------------
(* JavaScript values *)

Num(n) == [k |-> "num", n |-> n]
NaN == [k |-> "nan", n |-> 0]
Null == [k |-> "null", n |-> 0]
Undefined == [k |-> "undef", n |-> 0]

NoDataSentinel == -999

\* isNaN(value): ToNumber(null) is 0, ToNumber(undefined) is NaN
JsIsNaN(v) == v.k \in {"nan", "undef"}

Abs(x) == IF x < 0 THEN -x ELSE x

RECURSIVE GCD(_, _)
GCD(a, b) == IF b = 0 THEN a ELSE GCD(b, a % b)

\* the number n/d (d # 0) in lowest terms with a positive denominator
Frac(n, d) ==
    LET s == IF d < 0 THEN -1 ELSE 1
        g == GCD(Abs(n), Abs(d))
    IN  [num |-> (s * n) \div g, den |-> (s * d) \div g]

NoFrac == [num |-> 0, den |-> 0]
FracLeq(p, q) == p.num * q.den <= q.num * p.den
FracMin(p, q) == IF FracLeq(p, q) THEN p ELSE q
FracMax(p, q) == IF FracLeq(p, q) THEN q ELSE p

---------------------------------------------------------------------------
(* UnitSystem *)

isNoDataNaNOnly(value) ==
    \/ value.k = "null"
    \/ value.k = "undef"
    \/ JsIsNaN(value)

isNoData(value) ==
    \/ value.k = "null"
    \/ value.k = "undef"
    \/ JsIsNaN(value)
    \/ (value.k = "num" /\ value.n = NoDataSentinel)

calculateProgressUnclamped(current, baseline, target, indicatorType) ==
    IF isNoData(current) \/ isNoData(baseline) \/ isNoData(target) THEN Frac(0, 1)
    ELSE IF indicatorType = "direct" THEN
        IF current.n >= target.n THEN Frac(100, 1)
        ELSE LET range == target.n - baseline.n
                 achievement == current.n - baseline.n
             IN  IF range = 0 THEN Frac(0, 1)
                 ELSE Frac(achievement * 100, range)
    ELSE
        IF current.n <= target.n THEN Frac(100, 1)
        ELSE IF current.n > baseline.n THEN Frac(0, 1)
        ELSE LET range == baseline.n - target.n
                 improvement == baseline.n - current.n
             IN  IF range = 0 THEN Frac(0, 1)
                 ELSE Frac(improvement * 100, range)

calculateProgress(current, baseline, target, indicatorType) ==
    IF isNoData(current) \/ isNoData(baseline) \/ isNoData(target) THEN Frac(0, 1)
    ELSE IF indicatorType = "direct" THEN
        IF current.n >= target.n THEN Frac(100, 1)
        ELSE LET range == target.n - baseline.n
                 achievement == current.n - baseline.n
             IN  IF range = 0 THEN Frac(0, 1)
                 ELSE FracMin(Frac(100, 1), FracMax(Frac(0, 1), Frac(achievement * 100, range)))
    ELSE
        IF current.n <= target.n THEN Frac(100, 1)
        ELSE IF current.n > baseline.n THEN Frac(0, 1)
        ELSE LET range == baseline.n - target.n
                 improvement == baseline.n - current.n
             IN  IF range = 0 THEN Frac(0, 1)
                 ELSE FracMin(Frac(100, 1), FracMax(Frac(0, 1), Frac(improvement * 100, range)))

calculateStatusYearsFirst(current, baseline, target, indicatorType, numberOfYears) ==
    IF numberOfYears <= 1 THEN "Baseline Only"
    ELSE IF isNoData(current) \/ isNoData(baseline) \/ isNoData(target) THEN "No Data"
    ELSE IF current.n = baseline.n THEN "Baseline Only"
    ELSE LET isTarget == IF indicatorType = "direct" THEN current.n >= target.n
                         ELSE current.n <= target.n
             isDecline == IF indicatorType = "direct" THEN current.n < baseline.n
                          ELSE current.n > baseline.n
             isImproving == IF indicatorType = "direct" THEN current.n >= baseline.n
                            ELSE current.n <= baseline.n
             progress == calculateProgress(current, baseline, target, indicatorType)
         IN  IF isTarget THEN (IF isDecline THEN "Getting Worse" ELSE "Target Achieved")
             ELSE IF ~isImproving THEN "Getting Worse"
             ELSE IF FracLeq(Frac(25, 1), progress) THEN "Improving"
             ELSE "Little or No Change"

calculateStatusNoDecline(current, baseline, target, indicatorType, numberOfYears) ==
    IF isNoData(current) \/ isNoData(baseline) \/ isNoData(target) THEN "No Data"
    ELSE IF numberOfYears <= 1 THEN "Baseline Only"
    ELSE IF current.n = baseline.n THEN "Baseline Only"
    ELSE LET isTarget == IF indicatorType = "direct" THEN current.n >= target.n
                         ELSE current.n <= target.n
             isImproving == IF indicatorType = "direct" THEN current.n >= baseline.n
                            ELSE current.n <= baseline.n
             progress == calculateProgress(current, baseline, target, indicatorType)
         IN  IF isTarget THEN "Target Achieved"
             ELSE IF ~isImproving THEN "Getting Worse"
             ELSE IF FracLeq(Frac(25, 1), progress) THEN "Improving"
             ELSE "Little or No Change"

calculateStatus(current, baseline, target, indicatorType, numberOfYears) ==
    IF isNoData(current) \/ isNoData(baseline) \/ isNoData(target) THEN "No Data"
    ELSE IF numberOfYears <= 1 THEN "Baseline Only"
    ELSE IF current.n = baseline.n THEN "Baseline Only"
    ELSE LET isTarget == IF indicatorType = "direct" THEN current.n >= target.n
                         ELSE current.n <= target.n
             isDecline == IF indicatorType = "direct" THEN current.n < baseline.n
                          ELSE current.n > baseline.n
             isImproving == IF indicatorType = "direct" THEN current.n >= baseline.n
                            ELSE current.n <= baseline.n
             progress == calculateProgress(current, baseline, target, indicatorType)
         IN  IF isTarget THEN (IF isDecline THEN "Getting Worse" ELSE "Target Achieved")
             ELSE IF ~isImproving THEN "Getting Worse"
             ELSE IF FracLeq(Frac(25, 1), progress) THEN "Improving"
             ELSE "Little or No Change"

StatusLabels == {"Target Achieved", "Improving", "Getting Worse",
                 "Little or No Change", "No Data", "Baseline Only"}

---------------------------------------------------------------------------
(* Calls of the classification engine on bounded inputs *)

Numbers == {Num(n) : n \in (-MaxVal)..MaxVal} \cup {Num(NoDataSentinel)}
Values == Numbers \cup {NaN, Null, Undefined}
Directions == {"direct", "reverse"}

ArgSet == [current : Values, baseline : Values, target : Values,
           indicatorType : Directions, numberOfYears : 0..MaxYears]

NoArgs == [current |-> NaN, baseline |-> NaN, target |-> NaN,
           indicatorType |-> "direct", numberOfYears |-> 0]

\* the dcode property of the features of the district geometry
GeoDcodes == {"0012", "12", "1001", "1002"}

\* fillColor of a feature: '#ffffff', or rgb(255*(1-normalized), 255*(1-normalized), 255)
\* where normalized is a fraction, NoFrac standing for NaN
White == [color |-> "#ffffff", normalized |-> NoFrac]
Rgb(normalized) == [color |-> "rgb", normalized |-> normalized]

\* no layer on the map
NoLayer == [state |-> "none", indicatorId |-> "", fill |-> [d \in GeoDcodes |-> White]]

MapIdle ==
    /\ selectedYear = ""
    /\ mapLayer = NoLayer

\* processCSVData has not been called before
NoRun == [done |-> FALSE, data |-> <<>>, result |-> <<>>]

\* handleFileUpload is not running
UploadIdle ==
    [pc |-> "idle", newIndicators |-> <<>>, existingData |-> {}, mergedIndicators |-> <<>>,
     supabaseData |-> <<>>, i |-> 0, error |-> FALSE, sent |-> <<>>, alerts |-> <<>>]

\* handleSaveIndicator is not running
SaveIdle == [pc |-> "idle", updated |-> <<>>, error |-> FALSE, alert |-> ""]

\* the dashboard before anything is loaded, with an empty table
StoreIdle ==
    /\ store = {}
    /\ indicators = <<>>
    /\ selectedDomain = ""
    /\ isLoading = FALSE
    /\ upload = UploadIdle
    /\ save = SaveIdle
    /\ savedPolicies = {}

\* loadIndicators is not running
LoadIdle == [pc |-> "idle", data |-> {}, error |-> FALSE]

\* calculateSummaryStats of the empty list
NoStats ==
    [total |-> 0, targetAchieved |-> 0, targetAchievedButDeclining |-> 0, improving |-> 0,
     needsAttention |-> 0, littleChange |-> 0, noData |-> 0, baselineOnly |-> 0]

\* the dashboard before its first render: useState('all'), no cards
NoDashboard == [statusFilter |-> "all", stats |-> NoStats, cards |-> <<>>, labels |-> <<>>]

ViewIdle ==
    /\ load = LoadIdle
    /\ selectedIndicator = <<>>
    /\ isEditing = FALSE
    /\ otherUpload = UploadIdle
    /\ dashboard = NoDashboard
    /\ csvContent = <<>>

AppIdle ==
    /\ MapIdle
    /\ firstRun = NoRun
    /\ StoreIdle
    /\ ViewIdle
    /\ fileCount = 0
    /\ editCount = 0

CsvIdle ==
    /\ data = <<>>
    /\ rowIdx = 0
    /\ processedData = <<>>
    /\ postIdx = 0
    /\ phase = "idle"

InitUnit ==
    /\ args \in ArgSet
    /\ statusResult = "none"
    /\ progressResult = NoFrac
    /\ CsvIdle
    /\ AppIdle

CallCalculateStatus ==
    /\ statusResult = "none"
    /\ statusResult' = calculateStatus(args.current, args.baseline, args.target,
                                       args.indicatorType, args.numberOfYears)
    /\ UNCHANGED <<args, progressResult, csvVars, appVars>>

CallCalculateProgress ==
    /\ progressResult = NoFrac
    /\ progressResult' = calculateProgress(args.current, args.baseline, args.target,
                                           args.indicatorType)
    /\ UNCHANGED <<args, statusResult, csvVars, appVars>>

NextUnit == CallCalculateStatus \/ CallCalculateProgress

SpecUnit == InitUnit /\ [][NextUnit]_vars

---------------------------------------------------------------------------
(* Strings of a CSV row and their conversions.  The strings of the model   *)
(* are the tokens below; each conversion is the table of what JavaScript   *)
(* returns for them.                                                       *)

\* a non-empty string is truthy
Truthy(s) == s # ""

\* decimal numerals and the number they denote; any other token denotes none
Numerals == { <<"30", 30>>, <<"40", 40>>, <<"50", 50>>, <<"50.0", 50>>, <<"60", 60>>,
              <<"65", 65>>,
              <<"80", 80>>, <<"90", 90>>, <<"-999", -999>>,
              <<"2019", 2019>>, <<"2020", 2020>>, <<"2021", 2021>>, <<"2021.0", 2021>> }

\* parseFloat(s): the number of the longest numeric prefix, NaN when there is none
parseFloat(s) ==
    IF \E p \in Numerals : p[1] = s
    THEN Num((CHOOSE p \in Numerals : p[1] = s)[2])
    ELSE NaN

\* parseInt(s): the integer of the longest prefix of digits, NaN when there is
\* none; every numeral of the model denotes a whole number, "2021.0" included
parseInt(s) == parseFloat(s)

toLowerCase(s) ==
    CASE s = "Direct" -> "direct"
      [] s = "Reverse" -> "reverse"
      [] s = "Sex" -> "sex"
      [] s = "Female" -> "female"
      [] s = "Male" -> "male"
      [] s = "Age Group" -> "age group"
      [] OTHER -> s

\* the code stored as it is written in the row
padStartNone(s) == s

\* s.padStart(4, '0')
RECURSIVE padStart4(_)
padStart4(s) == IF Len(s) >= 4 THEN s ELSE padStart4("0" \o s)

\* s.split(';').map(x => x.trim())
splitSources(s) ==
    CASE s = "NSO; WHO" -> <<"NSO", "WHO">>
      [] OTHER -> <<s>>

\* the collation order of localeCompare on the category and value tokens
LocaleOrder == <<"15-24", "25-59", "age_group", "female", "male", "sex">>
LocaleRank(s) == CHOOSE i \in 1..Len(LocaleOrder) : LocaleOrder[i] = s
localeCompare(a, b) == LocaleRank(a) - LocaleRank(b)

---------------------------------------------------------------------------
(* Sequence helpers: Array.prototype.filter/map/find/sort, new Set *)

\* Array.from(new Set(s)): the distinct elements in order of first occurrence
RECURSIVE Distinct(_)
Distinct(s) ==
    IF s = <<>> THEN <<>>
    ELSE LET r == Distinct(SubSeq(s, 1, Len(s) - 1))
             x == s[Len(s)]
         IN  IF \E i \in 1..Len(r) : r[i] = x THEN r ELSE Append(r, x)

\* index of the first point of the given year, 0 when there is none (Array.find)
FindYear(points, year) ==
    IF \E j \in 1..Len(points) : points[j].year = year
    THEN CHOOSE j \in 1..Len(points) :
            /\ points[j].year = year
            /\ \A k \in 1..(j - 1) : points[k].year # year
    ELSE 0

\* x inserted into the sorted s behind every element that does not compare greater
InsertAt(s, x, i) == SubSeq(s, 1, i - 1) \o <<x>> \o SubSeq(s, i, Len(s))

YearCompare(a, b) == parseInt(a.year).n - parseInt(b.year).n

\* the points left in the order of their creation
SortByYearNone(s) == s

\* timeSeriesData.sort((a, b) => parseInt(a.year) - parseInt(b.year)), stable
RECURSIVE SortByYear(_)
SortByYear(s) ==
    IF Len(s) <= 1 THEN s
    ELSE LET r == SortByYear(SubSeq(s, 1, Len(s) - 1))
             x == s[Len(s)]
             n == Cardinality({i \in 1..Len(r) : YearCompare(r[i], x) <= 0})
         IN  InsertAt(r, x, n + 1)

DisaggregationCompare(a, b) ==
    IF localeCompare(a.category, b.category) # 0
    THEN localeCompare(a.category, b.category)
    ELSE localeCompare(a.value, b.value)

\* disaggregation.sort(category.localeCompare || value.localeCompare), stable
RECURSIVE SortDisaggregation(_)
SortDisaggregation(s) ==
    IF Len(s) <= 1 THEN s
    ELSE LET r == SortDisaggregation(SubSeq(s, 1, Len(s) - 1))
             x == s[Len(s)]
             n == Cardinality({i \in 1..Len(r) : DisaggregationCompare(r[i], x) <= 0})
         IN  InsertAt(r, x, n + 1)

---------------------------------------------------------------------------
(* processCSVData *)

\* processedData is an object literal: the keys below are found on its
\* prototype, where processedData[id] is a truthy value that is no Indicator
\* and has no timeSeriesData
PrototypeKeys == {"constructor", "__proto__", "toString"}

HasIndicator(pd, id) == \E i \in 1..Len(pd) : pd[i].id = id
IndexOfId(pd, id) == CHOOSE i \in 1..Len(pd) : pd[i].id = id

\* the Indicator built on the first occurrence of an id in data.forEach
NewIndicator(row) ==
    LET id == row.IndicatorID
        ofId == SelectSeq(data, LAMBDA r : r.IndicatorID = id)
        categories == [i \in 1..Len(ofId) |-> ofId[i].DisaggregationCategory]
        disaggregationTypes == Distinct(SelectSeq(categories, Truthy))
        withTotal == SelectSeq(ofId, LAMBDA r : Truthy(r.Total) /\ ~JsIsNaN(parseFloat(r.Total)))
        yearsWithData == Distinct([i \in 1..Len(withTotal) |-> withTotal[i].Year])
        numberOfYears == Len(yearsWithData)
        current == IF Truthy(row.Current) THEN parseFloat(row.Current) ELSE NaN
        baseline == IF Truthy(row.Baseline) THEN parseFloat(row.Baseline) ELSE NaN
        target == IF Truthy(row.Target) THEN parseFloat(row.Target) ELSE NaN
        year == IF Truthy(row.Year) THEN parseInt(row.Year) ELSE NaN
        methodology == row.Methodology
        dataSources == IF Truthy(row.DataSources) THEN splitSources(row.DataSources) ELSE <<>>
        warning == IF JsIsNaN(current) THEN "Missing current value"
                   ELSE IF JsIsNaN(baseline) THEN "Missing baseline value"
                   ELSE IF JsIsNaN(target) THEN "Missing target value"
                   ELSE IF numberOfYears <= 1 THEN "Only baseline data available"
                   ELSE ""
        typeArg == IF Truthy(toLowerCase(row.IndicatorType))
                   THEN toLowerCase(row.IndicatorType) ELSE "direct"
        status == calculateStatus(current, baseline, target, typeArg, numberOfYears)
    IN  [id |-> id,
         domain |-> row.Domain,
         subdomain |-> row.Subdomain,
         title |-> row.IndicatorTitle,
         description |-> row.Description,
         unit |-> IF Truthy(row.Unit) THEN row.Unit ELSE "%",
         indicatorType |-> toLowerCase(IF Truthy(row.IndicatorType)
                                       THEN row.IndicatorType ELSE "direct"),
         target |-> target,
         baseline |-> baseline,
         current |-> current,
         currentYear |-> year,
         warning |-> warning,
         status |-> status,
         disaggregationTypes |-> disaggregationTypes,
         timeSeriesData |-> <<>>,
         details |-> [methodology |-> methodology,
                      dataSources |-> dataSources,
                      targetMethod |-> row.TargetMethod,
                      relevantPolicies |-> <<>>]]

\* the entry handling that lets a later row of the same pair replace the percentage
AddDisaggregationOverwrite(disaggregation, row) ==
    IF Truthy(row.DisaggregationCategory) /\ Truthy(row.DisaggregationValue)
       /\ Truthy(row.Percentage)
    THEN LET percentage == parseFloat(row.Percentage)
             entry == [category |-> row.DisaggregationCategory,
                       value |-> row.DisaggregationValue,
                       percentage |-> percentage]
             same(e) == e.category = entry.category /\ e.value = entry.value
         IN  IF JsIsNaN(percentage) THEN disaggregation
             ELSE IF \E k \in 1..Len(disaggregation) : same(disaggregation[k])
             THEN [k \in 1..Len(disaggregation) |->
                      IF same(disaggregation[k]) THEN entry ELSE disaggregation[k]]
             ELSE Append(disaggregation, entry)
    ELSE disaggregation

\* the disaggregation list of a point after the row's entry is considered
AddDisaggregation(disaggregation, row) ==
    IF Truthy(row.DisaggregationCategory) /\ Truthy(row.DisaggregationValue)
       /\ Truthy(row.Percentage)
    THEN LET percentage == parseFloat(row.Percentage)
             existing == \E k \in 1..Len(disaggregation) :
                            /\ disaggregation[k].category = row.DisaggregationCategory
                            /\ disaggregation[k].value = row.DisaggregationValue
         IN  IF ~JsIsNaN(percentage) /\ ~existing
             THEN Append(disaggregation, [category |-> row.DisaggregationCategory,
                                          value |-> row.DisaggregationValue,
                                          percentage |-> percentage])
             ELSE disaggregation
    ELSE disaggregation

\* the district list of a point after the row's entry is considered
AddDistrict(district_data, row) ==
    IF Truthy(row.district_code) /\ Truthy(row.district_name) /\ Truthy(row.value)
    THEN LET districtCode == padStart4(row.district_code)
             existing == \E k \in 1..Len(district_data) :
                            district_data[k].district_code = districtCode
         IN  IF ~existing
             THEN Append(district_data, [district_code |-> districtCode,
                                         district_name |-> row.district_name,
                                         value |-> parseFloat(row.value)])
             ELSE district_data
    ELSE district_data

NewPoint(row, total) ==
    [year |-> row.Year, total |-> total, disaggregation |-> <<>>, district_data |-> <<>>]

\* the find-or-create of a point for every row with a Year, whatever its Total
AddRowToTimeSeriesAnyTotal(timeSeriesData, row) ==
    LET timeSeriesTotal == IF Truthy(row.Total) THEN parseFloat(row.Total) ELSE NaN
    IN  IF Truthy(row.Year)
        THEN LET found == FindYear(timeSeriesData, row.Year)
                 points == IF found = 0
                           THEN Append(timeSeriesData, NewPoint(row, timeSeriesTotal))
                           ELSE timeSeriesData
                 j == FindYear(points, row.Year)
             IN  [points EXCEPT ![j].disaggregation = AddDisaggregation(@, row),
                                ![j].district_data = AddDistrict(@, row)]
        ELSE timeSeriesData

\* the find-or-create of a point that keeps the total of the latest row
AddRowToTimeSeriesLastWins(timeSeriesData, row) ==
    LET timeSeriesTotal == IF Truthy(row.Total) THEN parseFloat(row.Total) ELSE NaN
    IN  IF ~JsIsNaN(timeSeriesTotal) /\ Truthy(row.Year)
        THEN LET found == FindYear(timeSeriesData, row.Year)
                 points == IF found = 0
                           THEN Append(timeSeriesData, NewPoint(row, timeSeriesTotal))
                           ELSE [timeSeriesData EXCEPT ![found].total = timeSeriesTotal]
                 j == FindYear(points, row.Year)
             IN  [points EXCEPT ![j].disaggregation = AddDisaggregation(@, row),
                                ![j].district_data = AddDistrict(@, row)]
        ELSE timeSeriesData

\* the time series of the row's indicator after the row ("Process time series data")
AddRowToTimeSeries(timeSeriesData, row) ==
    LET timeSeriesTotal == IF Truthy(row.Total) THEN parseFloat(row.Total) ELSE NaN
    IN  IF ~JsIsNaN(timeSeriesTotal) /\ Truthy(row.Year)
        THEN LET found == FindYear(timeSeriesData, row.Year)
                 points == IF found = 0
                           THEN Append(timeSeriesData, NewPoint(row, timeSeriesTotal))
                           ELSE timeSeriesData
                 j == FindYear(points, row.Year)
             IN  [points EXCEPT ![j].disaggregation = AddDisaggregation(@, row),
                                ![j].district_data = AddDistrict(@, row)]
        ELSE timeSeriesData

\* indicator.status after the validation block has set it (forced) and the
\* final calculation has assigned it again
FinalStatus(forced, current, baseline, target, indicatorType, validYearsCount) ==
    calculateStatus(current, baseline, target, indicatorType, validYearsCount)

\* the latest point is taken from the front of the sorted list
LatestPointFirst(timeSeriesData) == timeSeriesData[1]

\* timeSeriesData[timeSeriesData.length - 1]
LatestPoint(timeSeriesData) == timeSeriesData[Len(timeSeriesData)]

\* the body of the post-processing loop for one indicator
PostProcessIndicator(indicator) ==
    LET filtered == SelectSeq(indicator.timeSeriesData,
                              LAMBDA point : ~JsIsNaN(point.total) /\ point.total.k # "null")
        sorted == SortByYear(filtered)
        timeSeriesData == [j \in 1..Len(sorted) |->
                              [sorted[j] EXCEPT !.disaggregation = SortDisaggregation(@)]]
        validYearsCount == Len(timeSeriesData)
        warning == IF validYearsCount = 0 THEN "No time series data available"
                   ELSE IF validYearsCount = 1 THEN "Only baseline data available"
                   ELSE indicator.warning
        forced == IF validYearsCount = 0 THEN "No Data"
                  ELSE IF validYearsCount = 1 THEN "Baseline Only"
                  ELSE indicator.status
        backfill == JsIsNaN(indicator.current) /\ Len(timeSeriesData) > 0
        current == IF backfill THEN LatestPoint(timeSeriesData).total ELSE indicator.current
        currentYear == IF backfill THEN parseInt(LatestPoint(timeSeriesData).year)
                       ELSE indicator.currentYear
    IN  [indicator EXCEPT
            !.timeSeriesData = timeSeriesData,
            !.warning = warning,
            !.current = current,
            !.currentYear = currentYear,
            !.status = FinalStatus(forced, current, indicator.baseline, indicator.target,
                                   indicator.indicatorType, validYearsCount)]

\* the row reaches processedData[id].timeSeriesData.find
ReachesFind(row) ==
    LET timeSeriesTotal == IF Truthy(row.Total) THEN parseFloat(row.Total) ELSE NaN
    IN  ~JsIsNaN(timeSeriesTotal) /\ Truthy(row.Year)

\* one iteration of data.forEach; for an id found on the prototype no
\* indicator is created and the call of find on undefined raises a TypeError
ProcessRow ==
    /\ phase = "running"
    /\ rowIdx <= Len(data)
    /\ LET row == data[rowIdx]
           id == row.IndicatorID
       IN  IF id \in PrototypeKeys
           THEN /\ processedData' = processedData
                /\ IF ReachesFind(row)
                   THEN phase' = "threw" /\ rowIdx' = rowIdx
                   ELSE phase' = phase /\ rowIdx' = rowIdx + 1
           ELSE LET pd == IF HasIndicator(processedData, id) THEN processedData
                          ELSE Append(processedData, NewIndicator(row))
                    i == IndexOfId(pd, id)
                IN  /\ processedData' =
                          [pd EXCEPT ![i].timeSeriesData = AddRowToTimeSeries(@, row)]
                    /\ rowIdx' = rowIdx + 1
                    /\ phase' = phase
    /\ UNCHANGED <<data, postIdx, unitVars, appVars>>

\* one iteration of Object.values(processedData).forEach
PostProcess ==
    /\ phase = "running"
    /\ rowIdx > Len(data)
    /\ postIdx <= Len(processedData)
    /\ processedData' = [processedData EXCEPT ![postIdx] = PostProcessIndicator(@)]
    /\ postIdx' = postIdx + 1
    /\ UNCHANGED <<data, rowIdx, phase, unitVars, appVars>>

\* return Object.values(processedData)
Return ==
    /\ phase = "running"
    /\ rowIdx > Len(data)
    /\ postIdx > Len(processedData)
    /\ phase' = "returned"
    /\ UNCHANGED <<data, rowIdx, processedData, postIdx, unitVars, appVars>>

UnitIdle ==
    /\ args = NoArgs
    /\ statusResult = "none"
    /\ progressResult = NoFrac

---------------------------------------------------------------------------
(* processCSVData on bounded inputs *)

\* a row as handleFileUpload builds it: every header present, '' when missing
BaseRow ==
    [IndicatorID |-> "ECON-01", Domain |-> "Economic", Subdomain |-> "Employment",
     IndicatorTitle |-> "Employment rate", Description |-> "", Unit |-> "",
     IndicatorType |-> "", Target |-> "", Baseline |-> "", Current |-> "",
     Year |-> "", Total |-> "", Methodology |-> "", DataSources |-> "",
     TargetMethod |-> "", DisaggregationCategory |-> "", DisaggregationValue |-> "",
     Percentage |-> "", district_code |-> "", district_name |-> "", value |-> ""]

CsvYears == {"", "2020", "2021", "2021.0"}
CsvTotals == {"", "n/a", "50", "65", "90"}

\* Current, Baseline, Target, IndicatorType of a row
CsvMeta ==
    { [Current |-> "", Baseline |-> "", Target |-> "", IndicatorType |-> ""],
      [Current |-> "", Baseline |-> "40", Target |-> "80", IndicatorType |-> "direct"],
      [Current |-> "65", Baseline |-> "40", Target |-> "80", IndicatorType |-> "Reverse"],
      [Current |-> "n/a", Baseline |-> "", Target |-> "80", IndicatorType |-> "direct"] }

FullMeta == [Current |-> "65", Baseline |-> "40", Target |-> "80", IndicatorType |-> "Reverse"]

MetaRow(id, y, t, m) ==
    [BaseRow EXCEPT !.IndicatorID = id, !.Year = y, !.Total = t,
                    !.Current = m.Current, !.Baseline = m.Baseline, !.Target = m.Target,
                    !.IndicatorType = m.IndicatorType]

\* the rows of an import: every year, total and metadata for ECON-01, and a
\* few rows of a second indicator
CsvRows ==
    { MetaRow("ECON-01", y, t, m) : y \in CsvYears, t \in CsvTotals, m \in CsvMeta }
    \cup { MetaRow("ECON-02", y, t, FullMeta) : y \in {"2020", "2021"}, t \in {"", "90"} }

InitCSV ==
    /\ UnitIdle
    /\ AppIdle
    /\ \E n \in 1..MaxRows : data \in [1..n -> CsvRows]
    /\ rowIdx = 1
    /\ processedData = <<>>
    /\ postIdx = 1
    /\ phase = "running"

NextCSV == ProcessRow \/ PostProcess \/ Return

SpecCSV == InitCSV /\ [][NextCSV]_vars

\* the disaggregation and district columns of a row
SeriesExtra ==
    { [DisaggregationCategory |-> "", DisaggregationValue |-> "", Percentage |-> "",
       district_code |-> "", district_name |-> "", value |-> ""],
      [DisaggregationCategory |-> "sex", DisaggregationValue |-> "female", Percentage |-> "40",
       district_code |-> "12", district_name |-> "Phra Nakhon", value |-> "50"] }

SeriesYears == {"2020", "2021", "2021.0"}
SeriesTotals == {"", "50", "90"}
SeriesMeta == [Current |-> "", Baseline |-> "40", Target |-> "80", IndicatorType |-> "direct"]

\* the rows of one indicator's time series, with disaggregation and district columns
SeriesRows ==
    { [MetaRow("ECON-01", y, t, SeriesMeta) EXCEPT
            !.DisaggregationCategory = x.DisaggregationCategory,
            !.DisaggregationValue = x.DisaggregationValue,
            !.Percentage = x.Percentage,
            !.district_code = x.district_code,
            !.district_name = x.district_name,
            !.value = x.value] :
        y \in SeriesYears, t \in SeriesTotals, x \in SeriesExtra }

InitSeries ==
    /\ UnitIdle
    /\ AppIdle
    /\ \E n \in 1..MaxSeriesRows : data \in [1..n -> SeriesRows]
    /\ rowIdx = 1
    /\ processedData = <<>>
    /\ postIdx = 1
    /\ phase = "running"

SpecSeries == InitSeries /\ [][NextCSV]_vars

\* the rows of one indicator with a disaggregation entry each: two years,
\* three (category, value) pairs, and percentages that parse or do not
DisaggPairs == { <<"sex", "female">>, <<"sex", "male">>, <<"age_group", "15-24">> }

DisaggRows ==
    { [MetaRow("ECON-01", y, "50", SeriesMeta) EXCEPT
            !.DisaggregationCategory = cv[1],
            !.DisaggregationValue = cv[2],
            !.Percentage = p] :
        y \in {"2020", "2021"}, cv \in DisaggPairs, p \in {"40", "60", "n/a"} }

InitDisagg ==
    /\ UnitIdle
    /\ AppIdle
    /\ \E n \in 1..MaxDisaggRows : data \in [1..n -> DisaggRows]
    /\ rowIdx = 1
    /\ processedData = <<>>
    /\ postIdx = 1
    /\ phase = "running"

SpecDisagg == InitDisagg /\ [][NextCSV]_vars

\* rows of one indicator whose disaggregation and district columns are all
\* filled, with a Year that is empty or not and a Total that is empty, not a
\* number, or a number
FrameExtra ==
    { [DisaggregationCategory |-> "sex", DisaggregationValue |-> "female", Percentage |-> "40",
       district_code |-> "12", district_name |-> "Phra Nakhon", value |-> "50"],
      [DisaggregationCategory |-> "sex", DisaggregationValue |-> "male", Percentage |-> "60",
       district_code |-> "1001", district_name |-> "Dusit", value |-> "90"] }

FrameRows ==
    { [MetaRow("ECON-01", y, t, SeriesMeta) EXCEPT
            !.DisaggregationCategory = x.DisaggregationCategory,
            !.DisaggregationValue = x.DisaggregationValue,
            !.Percentage = x.Percentage,
            !.district_code = x.district_code,
            !.district_name = x.district_name,
            !.value = x.value] :
        y \in {"", "2020"}, t \in {"", "n/a", "50"}, x \in FrameExtra }

InitFrame ==
    /\ UnitIdle
    /\ AppIdle
    /\ \E n \in 1..MaxFrameRows : data \in [1..n -> FrameRows]
    /\ rowIdx = 1
    /\ processedData = <<>>
    /\ postIdx = 1
    /\ phase = "running"

SpecFrame == InitFrame /\ [][NextCSV]_vars

\* rows whose Indicator ID is empty, an ordinary id or the name of a property
\* every object inherits
IdRows ==
    { MetaRow(id, y, t, SeriesMeta) :
        id \in {"", "ECON-01", "constructor"}, y \in {"", "2020"}, t \in {"", "n/a", "50"} }

InitIds ==
    /\ UnitIdle
    /\ AppIdle
    /\ \E n \in 1..MaxIdRows : data \in [1..n -> IdRows]
    /\ rowIdx = 1
    /\ processedData = <<>>
    /\ postIdx = 1
    /\ phase = "running"

SpecIds == InitIds /\ [][NextCSV]_vars

---------------------------------------------------------------------------
(* processCSVData called a second time, on the same rows in another order *)

RowOrders(n) == { f \in [1..n -> 1..n] : \A i, j \in 1..n : f[i] = f[j] => i = j }

\* the result of the call is kept and processCSVData is called again on a
\* permutation of the rows; each call starts from its own processedData = {}
RunPermuted ==
    /\ phase = "returned"
    /\ ~firstRun.done
    /\ firstRun' = [done |-> TRUE, data |-> data, result |-> processedData]
    /\ \E f \in RowOrders(Len(data)) : data' = [i \in 1..Len(data) |-> data[f[i]]]
    /\ rowIdx' = 1
    /\ processedData' = <<>>
    /\ postIdx' = 1
    /\ phase' = "running"
    /\ UNCHANGED <<unitVars, mapVars, storeVars, viewVars>>

\* the rows of one indicator over three Year strings, two of them the same
\* number, with totals that parse or are absent, and a row of a second indicator
PermRows ==
    { MetaRow("ECON-01", y, t, SeriesMeta) : y \in SeriesYears, t \in SeriesTotals }
    \cup { MetaRow("ECON-02", "2020", "50", SeriesMeta) }

InitPerm ==
    /\ UnitIdle
    /\ AppIdle
    /\ \E n \in 1..MaxPermRows : data \in [1..n -> PermRows]
    /\ rowIdx = 1
    /\ processedData = <<>>
    /\ postIdx = 1
    /\ phase = "running"

NextPerm == ProcessRow \/ PostProcess \/ Return \/ RunPermuted

SpecPerm == InitPerm /\ [][NextPerm]_vars

---------------------------------------------------------------------------
(* MapView and LeafletMap: the district layer of one indicator and year *)

\* Math.min(...values) and Math.max(...values): NaN when a value is NaN
MathMin(values) ==
    IF \E v \in values : JsIsNaN(v) THEN NaN
    ELSE Num(CHOOSE m \in {v.n : v \in values} : \A v \in values : m <= v.n)

MathMax(values) ==
    IF \E v \in values : JsIsNaN(v) THEN NaN
    ELSE Num(CHOOSE m \in {v.n : v \in values} : \A v \in values : m >= v.n)

\* getColor(value): (value - min) / (max - min), which is 0/0 when max = min
getColor(value, min, max) ==
    IF JsIsNaN(value) \/ JsIsNaN(min) \/ JsIsNaN(max) \/ max.n = min.n
    THEN Rgb(NoFrac)
    ELSE Rgb(Frac(value.n - min.n, max.n - min.n))

\* index of the first entry of the dcode, 0 when there is none (Array.find)
FindDistrict(districtData, dcode) ==
    IF \E k \in 1..Len(districtData) : districtData[k].district_code = dcode
    THEN CHOOSE k \in 1..Len(districtData) :
            /\ districtData[k].district_code = dcode
            /\ \A l \in 1..(k - 1) : districtData[l].district_code # dcode
    ELSE 0

\* the layer the second effect of LeafletMap leaves on the map
DrawLayer(indicatorId, mapData, year) ==
    LET found == FindYear(mapData, year)
        districtData == IF found = 0 THEN <<>> ELSE mapData[found].district_data
        values == {districtData[k].value : k \in 1..Len(districtData)}
        min == MathMin(values)
        max == MathMax(values)
        style(dcode) ==
            LET k == FindDistrict(districtData, dcode)
            IN  IF k # 0 THEN getColor(districtData[k].value, min, max) ELSE White
    IN  IF Len(districtData) = 0
        THEN [state |-> "noData", indicatorId |-> indicatorId, fill |-> NoLayer.fill]
        ELSE [state |-> "drawn", indicatorId |-> indicatorId,
              fill |-> [d \in GeoDcodes |-> style(d)]]

\* a year of the dropdown is selected (the latest on mount) and the map is
\* rendered for it
RenderMap ==
    /\ phase = "returned"
    /\ \E n \in 1..Len(processedData) :
         LET indicator == processedData[n]
             mapData == indicator.timeSeriesData
             yearOptions == {mapData[j].year : j \in 1..Len(mapData)}
         IN  \E year \in yearOptions :
                /\ selectedYear' = year
                /\ mapLayer' = DrawLayer(indicator.id, mapData, year)
    /\ UNCHANGED <<unitVars, csvVars, firstRun, storeVars, viewVars>>

\* the rows of one indicator with a district entry each
MapRows ==
    { [MetaRow("ECON-01", y, "50", SeriesMeta) EXCEPT
            !.district_code = c,
            !.district_name = "Phra Nakhon",
            !.value = v] :
        y \in {"2020", "2021"}, c \in {"12", "0012", "1001"}, v \in {"50", "90", "n/a"} }

InitMap ==
    /\ UnitIdle
    /\ AppIdle
    /\ \E n \in 1..MaxMapRows : data \in [1..n -> MapRows]
    /\ rowIdx = 1
    /\ processedData = <<>>
    /\ postIdx = 1
    /\ phase = "running"

NextMap == ProcessRow \/ PostProcess \/ Return \/ RenderMap

SpecMap == InitMap /\ [][NextMap]_vars

---------------------------------------------------------------------------
(* The indicators table of the store and the records sent to it *)

\* a || b on strings: null, undefined and '' are all falsy and are all ""
OrElse(a, b) == IF Truthy(a) THEN a ELSE b

\* a number in a JSON body: NaN is serialized as null
JsonNumber(v) == IF JsIsNaN(v) THEN Null ELSE v

\* the points of a record as JSON
JsonSeries(timeSeriesData) ==
    [j \in 1..Len(timeSeriesData) |->
        [year |-> timeSeriesData[j].year,
         total |-> JsonNumber(timeSeriesData[j].total),
         disaggregation |-> timeSeriesData[j].disaggregation,
         district_data |->
            [k \in 1..Len(timeSeriesData[j].district_data) |->
                [timeSeriesData[j].district_data[k] EXCEPT !.value = JsonNumber(@)]]]]

\* the record of the indicators table for an Indicator ("Format data for Supabase")
ToRow(indicator) ==
    [id |-> indicator.id,
     domain |-> indicator.domain,
     subdomain |-> indicator.subdomain,
     title |-> indicator.title,
     description |-> indicator.description,
     unit |-> indicator.unit,
     indicator_type |-> indicator.indicatorType,
     target |-> JsonNumber(indicator.target),
     baseline |-> JsonNumber(indicator.baseline),
     current |-> JsonNumber(indicator.current),
     current_year |-> JsonNumber(indicator.currentYear),
     warning |-> OrElse(indicator.warning, ""),
     status |-> indicator.status,
     time_series_data |-> JsonSeries(indicator.timeSeriesData),
     disaggregation_types |-> indicator.disaggregationTypes,
     details |-> indicator.details]

\* the Indicator that loadIndicators builds from a record of the table
FromRow(row) ==
    [id |-> row.id,
     domain |-> row.domain,
     subdomain |-> row.subdomain,
     title |-> row.title,
     description |-> OrElse(row.description, ""),
     unit |-> row.unit,
     indicatorType |-> row.indicator_type,
     target |-> row.target,
     baseline |-> row.baseline,
     current |-> row.current,
     currentYear |-> row.current_year,
     warning |-> OrElse(row.warning, ""),
     status |-> row.status,
     disaggregationTypes |-> row.disaggregation_types,
     timeSeriesData |-> row.time_series_data,
     details |-> [methodology |-> OrElse(row.details.methodology, ""),
                  dataSources |-> row.details.dataSources,
                  targetMethod |-> OrElse(row.details.targetMethod, ""),
                  relevantPolicies |-> row.details.relevantPolicies]]

\* an upsert that keeps the stored record of an id (ignoreDuplicates)
UpsertIgnoreDuplicates(table, records) ==
    table \cup { records[k] : k \in { j \in 1..Len(records) :
                                        \A row \in table : row.id # records[j].id } }

\* upsert(records, { onConflict: 'id' }): every record replaces the stored
\* record of its id or is inserted
Upsert(table, records) ==
    { row \in table : \A k \in 1..Len(records) : records[k].id # row.id }
    \cup { records[k] : k \in 1..Len(records) }

\* the id of the n-th indicator of a large import
Digits == <<"0", "1", "2", "3", "4", "5", "6", "7", "8", "9">>
RECURSIVE Decimal(_)
Decimal(n) == IF n < 10 THEN Digits[n + 1] ELSE Decimal(n \div 10) \o Digits[(n % 10) + 1]
IdOf(n) == "ECON-" \o Decimal(n)

\* parseInt(id.split('-')[1]): the number behind the first '-', NaN without one
IdNumber(id) ==
    CASE id = "ECON-01" -> Num(1)
      [] id = "ECON-02" -> Num(2)
      [] \E n \in 1..(MaxUploadRecords + 1) : id = IdOf(n) ->
            Num(CHOOSE n \in 1..(MaxUploadRecords + 1) : id = IdOf(n))
      [] OTHER -> NaN

\* aNum - bNum of the comparator, a NaN result being taken as 0
NumberCompare(aNum, bNum) ==
    IF JsIsNaN(aNum) \/ JsIsNaN(bNum) THEN 0 ELSE aNum.n - bNum.n

\* the list in the stable order of the numbers of its elements; the ranks
\* are bound as a value, so that they are computed once
SortByNumbers(s, nums) ==
    LET before(j, i) ==
            \/ NumberCompare(nums[j], nums[i]) < 0
            \/ NumberCompare(nums[j], nums[i]) = 0 /\ j < i
        ranks == [i \in 1..Len(s) |-> 1 + Cardinality({j \in 1..Len(s) : before(j, i)})]
    IN  CHOOSE sorted \in { [p \in 1..Len(s) |-> s[CHOOSE i \in 1..Len(s) : rank[i] = p]] :
                              rank \in {ranks} } : TRUE

\* list.sort((a, b) => parseInt(a.id.split('-')[1]) - parseInt(b.id.split('-')[1])),
\* for a list whose ids all carry a number
SortById(s) ==
    CHOOSE sorted \in { SortByNumbers(s, nums) :
                          nums \in {[i \in 1..Len(s) |-> IdNumber(s[i].id)]} } : TRUE

\* the merge that lets the stored text win over the ingested one
mergeIndicatorDataStoredFirst(newIndicators, existingData) ==
    [i \in 1..Len(newIndicators) |->
        LET newIndicator == newIndicators[i]
            found == {item \in existingData : item.id = newIndicator.id}
        IN  IF found = {} THEN newIndicator
            ELSE LET existingIndicator == CHOOSE item \in found : TRUE
                 IN  [newIndicator EXCEPT
                        !.description = OrElse(existingIndicator.description, @),
                        !.details =
                           [methodology |-> OrElse(existingIndicator.details.methodology,
                                                   @.methodology),
                            dataSources |->
                               IF Len(existingIndicator.details.dataSources) > 0
                               THEN existingIndicator.details.dataSources
                               ELSE @.dataSources,
                            targetMethod |-> OrElse(existingIndicator.details.targetMethod,
                                                    @.targetMethod),
                            relevantPolicies |-> existingIndicator.details.relevantPolicies]]]

\* mergeIndicatorData after the read of the table has returned existingData
mergeIndicatorData(newIndicators, existingData) ==
    [i \in 1..Len(newIndicators) |->
        LET newIndicator == newIndicators[i]
            found == {item \in existingData : item.id = newIndicator.id}
        IN  IF found = {}
            THEN [newIndicator EXCEPT
                    !.description = OrElse(@, ""),
                    !.details = [methodology |-> OrElse(@.methodology, ""),
                                 dataSources |-> @.dataSources,
                                 targetMethod |-> OrElse(@.targetMethod, ""),
                                 relevantPolicies |-> @.relevantPolicies]]
            ELSE LET existingIndicator == CHOOSE item \in found : TRUE
                 IN  [newIndicator EXCEPT
                        !.description = OrElse(@, OrElse(existingIndicator.description, "")),
                        !.details =
                           [methodology |->
                               OrElse(@.methodology,
                                      OrElse(existingIndicator.details.methodology, "")),
                            dataSources |->
                               IF Len(@.dataSources) > 0 THEN @.dataSources
                               ELSE existingIndicator.details.dataSources,
                            targetMethod |->
                               OrElse(@.targetMethod,
                                      OrElse(existingIndicator.details.targetMethod, "")),
                            relevantPolicies |-> existingIndicator.details.relevantPolicies]]]

---------------------------------------------------------------------------
(* handleFileUpload: merge with the store and batch upsert.  Every await is *)
(* two steps: the store executes the request, then the handler resumes.     *)

\* a catch block that leaves the merged indicators of the import in memory
UploadFailsOptimistic ==
    /\ upload' = [upload EXCEPT !.pc = "failed",
                                !.alerts = Append(@, "Error processing or saving file")]
    /\ isLoading' = FALSE
    /\ indicators' = upload.mergedIndicators
    /\ selectedDomain' = selectedDomain

\* a catch block that empties the list and the selected domain
UploadFailsClearsList ==
    /\ upload' = [upload EXCEPT !.pc = "failed",
                                !.alerts = Append(@, "Error processing or saving file")]
    /\ isLoading' = FALSE
    /\ indicators' = <<>>
    /\ selectedDomain' = ""

\* the catch and finally blocks of handleFileUpload
UploadFails ==
    /\ upload' = [upload EXCEPT !.pc = "failed",
                                !.alerts = Append(@, "Error processing or saving file")]
    /\ isLoading' = FALSE
    /\ UNCHANGED <<indicators, selectedDomain>>

\* the end of the try block and the finally block of handleFileUpload
UploadFinishes(mergedIndicators) ==
    /\ indicators' = mergedIndicators
    /\ selectedDomain' = IF Len(mergedIndicators) > 0 THEN mergedIndicators[1].domain
                         ELSE selectedDomain
    /\ isLoading' = FALSE

\* processCSVData has returned: the indicators are sorted by id and
\* mergeIndicatorData sends its read of the table
StartMerge ==
    /\ upload.pc = "idle"
    /\ phase \in {"returned", "threw"}
    /\ IF phase = "threw"
       THEN UploadFails
       ELSE /\ upload' = [upload EXCEPT !.pc = "select",
                                        !.newIndicators = SortById(processedData)]
            /\ UNCHANGED <<indicators, selectedDomain, isLoading>>
    /\ UNCHANGED <<unitVars, csvVars, mapVars, firstRun, viewVars, store, save, savedPolicies>>

\* the store answers select('*') with its records or with an error
SelectAtStore ==
    /\ upload.pc = "select"
    /\ \E error \in BOOLEAN :
          upload' = [upload EXCEPT !.pc = "selected",
                                   !.existingData = IF error THEN {} ELSE store,
                                   !.error = error]
    /\ UNCHANGED <<unitVars, csvVars, mapVars, firstRun, viewVars, store, indicators, selectedDomain,
                   isLoading, save, savedPolicies>>

\* mergeIndicatorData resumes: it throws on an error, else the merged
\* indicators are formatted and the first upsert is sent
SelectReturns ==
    /\ upload.pc = "selected"
    /\ IF upload.error
       THEN UploadFails
       ELSE LET mergedIndicators == mergeIndicatorData(upload.newIndicators,
                                                       upload.existingData)
                supabaseData == [k \in 1..Len(mergedIndicators) |-> ToRow(mergedIndicators[k])]
            IN  IF Len(supabaseData) = 0
                THEN /\ UploadFinishes(mergedIndicators)
                     /\ upload' = [upload EXCEPT !.pc = "done",
                                                 !.mergedIndicators = mergedIndicators]
                ELSE /\ upload' = [upload EXCEPT !.pc = "upsert",
                                                 !.mergedIndicators = mergedIndicators,
                                                 !.supabaseData = supabaseData,
                                                 !.i = 0]
                     /\ UNCHANGED <<indicators, selectedDomain, isLoading>>
    /\ UNCHANGED <<unitVars, csvVars, mapVars, firstRun, viewVars, store, save, savedPolicies>>

\* supabaseData.slice(i, i + BATCH_SIZE), which the loop computes
batch(supabaseData, i) ==
    SubSeq(supabaseData, i + 1,
           IF i + BATCH_SIZE < Len(supabaseData) THEN i + BATCH_SIZE ELSE Len(supabaseData))

\* the records the loop passes to upsert in the iteration that starts at i
UpsertArgument(supabaseData, i) == supabaseData

\* the store executes the upsert of the iteration, or answers with an error
UpsertAtStore ==
    /\ upload.pc = "upsert"
    /\ \E error \in BOOLEAN :
          LET records == UpsertArgument(upload.supabaseData, upload.i)
          IN  /\ store' = IF error THEN store ELSE Upsert(store, records)
              /\ upload' = [upload EXCEPT
                              !.pc = "upserted",
                              !.error = error,
                              !.sent = Append(@, [ids |-> [k \in 1..Len(records) |->
                                                              records[k].id],
                                                  error |-> error])]
    /\ UNCHANGED <<unitVars, csvVars, mapVars, firstRun, viewVars, indicators, selectedDomain,
                   isLoading, save, savedPolicies>>

\* the loop resumes: it throws on an error, steps to the next iteration, or
\* ends and the merged indicators replace the in-memory list
UpsertReturns ==
    /\ upload.pc = "upserted"
    /\ IF upload.error
       THEN UploadFails
       ELSE IF upload.i + BATCH_SIZE < Len(upload.supabaseData)
       THEN /\ upload' = [upload EXCEPT !.pc = "upsert", !.i = @ + BATCH_SIZE]
            /\ UNCHANGED <<indicators, selectedDomain, isLoading>>
       ELSE /\ UploadFinishes(upload.mergedIndicators)
            /\ upload' = [upload EXCEPT !.pc = "done"]
    /\ UNCHANGED <<unitVars, csvVars, mapVars, firstRun, viewVars, store, save, savedPolicies>>

---------------------------------------------------------------------------
(* handleSaveIndicator *)

\* a number that is truthy: not 0, NaN, null or undefined
TruthyNumber(v) == v.k = "num" /\ v.n # 0

\* the relevantPolicies of an edit
SavePolicies == { <<"Policy B">>, <<"Policy B", "Policy C">> }

\* the record built up to the upsert request, with the status it will carry
SavedIndicator(updatedIndicator) ==
    LET inMemory == {indicators[n] : n \in 1..Len(indicators)}
        found == {ind \in inMemory : ind.id = updatedIndicator.id}
        currentYear ==
            IF TruthyNumber(updatedIndicator.currentYear) THEN updatedIndicator.currentYear
            ELSE IF found # {} /\ TruthyNumber((CHOOSE ind \in found : TRUE).currentYear)
            THEN (CHOOSE ind \in found : TRUE).currentYear
            ELSE Num(ThisYear)
        finalStatus == IF Len(updatedIndicator.timeSeriesData) <= 1 THEN "Baseline Only"
                       ELSE updatedIndicator.status
    IN  [updatedIndicator EXCEPT !.currentYear = currentYear, !.status = finalStatus]

\* a submit that passes the form on with the status it was opened with
handleSubmitKeepsStatus(formData) == formData

\* EditIndicatorForm.handleSubmit: the status is calculated from the values of the form
handleSubmit(formData) ==
    [formData EXCEPT !.status = calculateStatus(formData.current, formData.baseline,
                                                formData.target, formData.indicatorType,
                                                Len(formData.timeSeriesData))]

\* handleSaveIndicator up to its await: the upsert of the record is sent
SaveStarts(updatedIndicator) ==
    /\ save' = [save EXCEPT !.pc = "upsert",
                             !.updated = <<SavedIndicator(updatedIndicator)>>,
                             !.alert = ""]
    /\ isLoading' = TRUE

\* the card of an indicator of the list is clicked, the form is opened, its
\* policies are edited and the form is submitted
StartSave ==
    /\ save.pc = "idle"
    /\ \E n \in 1..Len(indicators), policies \in SavePolicies :
          LET formData == [indicators[n] EXCEPT !.details.relevantPolicies = policies]
          IN  /\ SaveStarts(handleSubmit(formData))
              /\ selectedIndicator' = <<indicators[n]>>
    /\ isEditing' = TRUE
    /\ UNCHANGED <<unitVars, csvVars, mapVars, firstRun, store, indicators, selectedDomain,
                   upload, savedPolicies, load, pageVars>>

\* onClick of an IndicatorCard: the indicator becomes the one of the detail view
SelectIndicator ==
    /\ \E n \in 1..Len(indicators) : selectedIndicator' = <<indicators[n]>>
    /\ UNCHANGED <<unitVars, csvVars, mapVars, firstRun, storeVars, load, isEditing,
                   pageVars>>

\* onClick of the Edit Indicator button, and onCancel of the form
ToggleEditing ==
    /\ selectedIndicator # <<>>
    /\ isEditing' = ~isEditing
    /\ UNCHANGED <<unitVars, csvVars, mapVars, firstRun, storeVars, load, selectedIndicator,
                   pageVars>>

\* the edits of a form: the current value is cleared ('' gives NaN), or it
\* is set to 90 and the indicator type to reverse
FormEdits == { [current |-> NaN, indicatorType |-> "direct"],
               [current |-> Num(90), indicatorType |-> "reverse"] }

\* the form opened on the indicator of the detail view is edited and submitted
SubmitEdit ==
    /\ editCount < MaxEdits
    /\ save.pc = "idle"
    /\ isEditing
    /\ selectedIndicator # <<>>
    /\ \E edit \in FormEdits :
          LET formData == [selectedIndicator[1] EXCEPT
                              !.current = edit.current,
                              !.indicatorType = edit.indicatorType]
          IN  SaveStarts(handleSubmit(formData))
    /\ editCount' = editCount + 1
    /\ UNCHANGED <<unitVars, csvVars, mapVars, firstRun, store, indicators, selectedDomain,
                   upload, savedPolicies, load, selectedIndicator, isEditing, otherUpload,
                   dashboard, csvContent, fileCount>>

\* the store executes the upsert of the single record, or answers with an error
SaveAtStore ==
    /\ save.pc = "upsert"
    /\ \E error \in BOOLEAN :
          LET record == ToRow(save.updated[1])
          IN  /\ store' = IF error THEN store ELSE Upsert(store, <<record>>)
              /\ savedPolicies' =
                    IF error THEN savedPolicies
                    ELSE {p \in savedPolicies : p[1] # record.id}
                         \cup {<<record.id, record.details.relevantPolicies>>}
              /\ save' = [save EXCEPT !.pc = "upserted", !.error = error]
    /\ UNCHANGED <<unitVars, csvVars, mapVars, firstRun, viewVars, indicators, selectedDomain,
                   isLoading, upload>>

\* a resume that adds the saved indicator to a list that does not hold its id
SaveReturnsAppends ==
    /\ save.pc = "upserted"
    /\ IF save.error
       THEN /\ save' = [SaveIdle EXCEPT !.alert = "Error saving changes. Please try again."]
            /\ UNCHANGED <<indicators, selectedIndicator, isEditing>>
       ELSE /\ indicators' =
                  [n \in 1..Len(indicators) |->
                      IF indicators[n].id = save.updated[1].id
                      THEN save.updated[1] ELSE indicators[n]]
                  \o (IF \E n \in 1..Len(indicators) : indicators[n].id = save.updated[1].id
                      THEN <<>> ELSE <<save.updated[1]>>)
            /\ selectedIndicator' = <<save.updated[1]>>
            /\ isEditing' = FALSE
            /\ save' = [SaveIdle EXCEPT !.alert = "Changes saved successfully"]
    /\ isLoading' = FALSE
    /\ UNCHANGED <<unitVars, csvVars, mapVars, firstRun, store, selectedDomain, upload,
                   savedPolicies, load, pageVars>>

\* handleSaveIndicator resumes: on an error it alerts and leaves the list
\* alone, else the saved indicator replaces the one of its id in the list
SaveReturns ==
    /\ save.pc = "upserted"
    /\ IF save.error
       THEN /\ save' = [SaveIdle EXCEPT !.alert = "Error saving changes. Please try again."]
            /\ UNCHANGED <<indicators, selectedIndicator, isEditing>>
       ELSE /\ indicators' = [n \in 1..Len(indicators) |->
                                 IF indicators[n].id = save.updated[1].id
                                 THEN save.updated[1] ELSE indicators[n]]
            /\ selectedIndicator' = <<save.updated[1]>>
            /\ isEditing' = FALSE
            /\ save' = [SaveIdle EXCEPT !.alert = "Changes saved successfully"]
    /\ isLoading' = FALSE
    /\ UNCHANGED <<unitVars, csvVars, mapVars, firstRun, store, selectedDomain, upload,
                   savedPolicies, load, pageVars>>

---------------------------------------------------------------------------
(* loadIndicators, the effect that runs on mount *)

\* the records of a table in some order
RECURSIVE SeqOfSet(_)
SeqOfSet(S) ==
    IF S = {} THEN <<>>
    ELSE LET x == CHOOSE y \in S : TRUE IN Append(SeqOfSet(S \ {x}), x)

\* the list loadIndicators leaves in memory for the records of the table
LoadIndicators(table) ==
    LET rows == SeqOfSet(table)
    IN  SortById([k \in 1..Len(rows) |-> FromRow(rows[k])])

\* the store answers select('*') of loadIndicators with its records or an error
LoadAtStore ==
    /\ load.pc = "select"
    /\ \E error \in BOOLEAN :
          load' = [pc |-> "selected", data |-> IF error THEN {} ELSE store, error |-> error]
    /\ UNCHANGED <<unitVars, csvVars, mapVars, firstRun, storeVars, selectedIndicator,
                   isEditing, pageVars>>

\* loadIndicators resumes: it logs an error, else a non-empty answer
\* replaces the in-memory list
LoadReturns ==
    /\ load.pc = "selected"
    /\ IF load.error
       THEN /\ load' = [load EXCEPT !.pc = "failed"]
            /\ UNCHANGED indicators
       ELSE /\ load' = [load EXCEPT !.pc = "done"]
            /\ indicators' = IF load.data # {} THEN LoadIndicators(load.data) ELSE indicators
    /\ isLoading' = FALSE
    /\ UNCHANGED <<unitVars, csvVars, mapVars, firstRun, store, selectedDomain, upload, save,
                   savedPolicies, selectedIndicator, isEditing, pageVars>>

---------------------------------------------------------------------------
(* An upload against a store that may hold the indicator, with saves *)

EmptyDetails ==
    [methodology |-> "", dataSources |-> <<>>, targetMethod |-> "", relevantPolicies |-> <<>>]

StoredDetails ==
    [methodology |-> "Stored method", dataSources |-> <<"NSO">>,
     targetMethod |-> "Stored target method", relevantPolicies |-> <<"Policy A">>]

\* an indicator as an earlier upload of one year of data and later edits left it
StoredIndicator(id, description, details) ==
    [id |-> id,
     domain |-> "Economic",
     subdomain |-> "Employment",
     title |-> "Employment rate",
     description |-> description,
     unit |-> "%",
     indicatorType |-> "direct",
     target |-> Num(80),
     baseline |-> Num(40),
     current |-> Num(50),
     currentYear |-> Num(2019),
     warning |-> "Only baseline data available",
     status |-> "Baseline Only",
     disaggregationTypes |-> <<>>,
     timeSeriesData |-> <<[year |-> "2019", total |-> Num(50),
                           disaggregation |-> <<>>, district_data |-> <<>>]>>,
     details |-> details]

\* the table is empty or holds a record of ECON-01
InitialStores ==
    { {} } \cup
    { { ToRow(StoredIndicator("ECON-01", description, details)) } :
        description \in {"", "Stored description"}, details \in {EmptyDetails, StoredDetails} }

\* Description, Methodology, Data Sources and Target Method of a row
UploadTexts ==
    { [Description |-> "", Methodology |-> "", DataSources |-> "", TargetMethod |-> ""],
      [Description |-> "New description", Methodology |-> "", DataSources |-> "",
       TargetMethod |-> ""],
      [Description |-> "New description", Methodology |-> "New method",
       DataSources |-> "NSO; WHO", TargetMethod |-> "New target method"] }

FullTexts ==
    [Description |-> "New description", Methodology |-> "New method",
     DataSources |-> "NSO; WHO", TargetMethod |-> "New target method"]

TextRow(id, x) ==
    [MetaRow(id, "2020", "50", SeriesMeta) EXCEPT
        !.Description = x.Description,
        !.Methodology = x.Methodology,
        !.DataSources = x.DataSources,
        !.TargetMethod = x.TargetMethod]

\* the rows of a file: ECON-01 with every text, ECON-02 with all of it
UploadRows ==
    { TextRow("ECON-01", x) : x \in UploadTexts } \cup { TextRow("ECON-02", FullTexts) }

\* the file has been read and processCSVData starts on its rows; the list in
\* memory is the one loaded from the table on mount
InitUpload ==
    /\ UnitIdle
    /\ MapIdle
    /\ firstRun = NoRun
    /\ ViewIdle
    /\ fileCount = 1
    /\ editCount = 0
    /\ \E n \in 1..MaxUploadRows : data \in [1..n -> UploadRows]
    /\ rowIdx = 1
    /\ processedData = <<>>
    /\ postIdx = 1
    /\ phase = "running"
    /\ store \in InitialStores
    /\ indicators = LoadIndicators(store)
    /\ selectedDomain = ""
    /\ isLoading = TRUE
    /\ upload = UploadIdle
    /\ save = SaveIdle
    /\ savedPolicies = {}

NextUpload ==
    \/ ProcessRow \/ PostProcess \/ Return
    \/ StartMerge \/ SelectAtStore \/ SelectReturns \/ UpsertAtStore \/ UpsertReturns
    \/ StartSave \/ SaveAtStore \/ SaveReturns

SpecUpload == InitUpload /\ [][NextUpload]_vars

---------------------------------------------------------------------------
(* An upload of many indicators into an empty table *)

\* the numbers of indicators of an upload: around one and two batches
UploadSizes == {1, BATCH_SIZE, BATCH_SIZE + 1, 2 * BATCH_SIZE, MaxUploadRecords}

\* one row per indicator, the ids in descending order
InitBatch ==
    /\ UnitIdle
    /\ MapIdle
    /\ firstRun = NoRun
    /\ ViewIdle
    /\ fileCount = 1
    /\ editCount = 0
    /\ \E n \in UploadSizes :
          data = [k \in 1..n |-> MetaRow(IdOf(n + 1 - k), "2020", "50", SeriesMeta)]
    /\ rowIdx = 1
    /\ processedData = <<>>
    /\ postIdx = 1
    /\ phase = "running"
    /\ store = {}
    /\ indicators = <<>>
    /\ selectedDomain = ""
    /\ isLoading = TRUE
    /\ upload = UploadIdle
    /\ save = SaveIdle
    /\ savedPolicies = {}

NextBatch ==
    \/ ProcessRow \/ PostProcess \/ Return
    \/ StartMerge \/ SelectAtStore \/ SelectReturns \/ UpsertAtStore \/ UpsertReturns

SpecBatch == InitBatch /\ [][NextBatch]_vars

---------------------------------------------------------------------------
(* The dashboard from its mount: the load, imports one after the other, and *)
(* edits of the indicator of the detail view                               *)

\* the table on mount: empty, or left by an earlier session
AppStores == { {}, { ToRow(StoredIndicator("ECON-01", "Stored description", StoredDetails)) } }

\* Current 65 with no baseline, and a Total that does not parse
NoBaselineMeta == [Current |-> "65", Baseline |-> "", Target |-> "80", IndicatorType |-> "Reverse"]

\* the files of the imports: one or two years of ECON-01, and ECON-02 without data
AppFiles ==
    { << MetaRow("ECON-01", "2020", "50", SeriesMeta) >>,
      << MetaRow("ECON-01", "2021", "90", SeriesMeta),
         MetaRow("ECON-01", "2020", "50", SeriesMeta) >>,
      << MetaRow("ECON-02", "2020", "n/a", NoBaselineMeta) >> }

\* handleFileUpload up to processCSVData: a file is chosen, its text is read and
\* split into rows; an import starts once the one before it has ended
FileChosen ==
    /\ fileCount < MaxImports
    /\ phase = "idle" \/ upload.pc \in {"done", "failed"}
    /\ data' \in AppFiles
    /\ rowIdx' = 1
    /\ processedData' = <<>>
    /\ postIdx' = 1
    /\ phase' = "running"
    /\ upload' = UploadIdle
    /\ isLoading' = TRUE
    /\ fileCount' = fileCount + 1
    /\ UNCHANGED <<unitVars, mapVars, firstRun, store, indicators, selectedDomain, save,
                   savedPolicies, load, selectedIndicator, isEditing, otherUpload, dashboard,
                   csvContent, editCount>>

\* the component has mounted: the effect has sent the read of loadIndicators
InitApp ==
    /\ UnitIdle
    /\ CsvIdle
    /\ MapIdle
    /\ firstRun = NoRun
    /\ store \in AppStores
    /\ indicators = <<>>
    /\ selectedDomain = ""
    /\ isLoading = TRUE
    /\ upload = UploadIdle
    /\ save = SaveIdle
    /\ savedPolicies = {}
    /\ load = [LoadIdle EXCEPT !.pc = "select"]
    /\ selectedIndicator = <<>>
    /\ isEditing = FALSE
    /\ otherUpload = UploadIdle
    /\ dashboard = NoDashboard
    /\ csvContent = <<>>
    /\ fileCount = 0
    /\ editCount = 0

NextApp ==
    \/ LoadAtStore \/ LoadReturns
    \/ FileChosen \/ ProcessRow \/ PostProcess \/ Return
    \/ StartMerge \/ SelectAtStore \/ SelectReturns \/ UpsertAtStore \/ UpsertReturns

SpecApp == InitApp /\ [][NextApp]_vars

\* the load has ended and left the records of the table in memory
InitEdit ==
    /\ UnitIdle
    /\ CsvIdle
    /\ MapIdle
    /\ firstRun = NoRun
    /\ store \in AppStores
    /\ indicators = LoadIndicators(store)
    /\ selectedDomain = ""
    /\ isLoading = FALSE
    /\ upload = UploadIdle
    /\ save = SaveIdle
    /\ savedPolicies = {}
    /\ load = [LoadIdle EXCEPT !.pc = "done", !.data = store]
    /\ selectedIndicator = <<>>
    /\ isEditing = FALSE
    /\ otherUpload = UploadIdle
    /\ dashboard = NoDashboard
    /\ csvContent = <<>>
    /\ fileCount = 0
    /\ editCount = 0

NextEdit ==
    \/ FileChosen \/ ProcessRow \/ PostProcess \/ Return
    \/ StartMerge \/ SelectAtStore \/ SelectReturns \/ UpsertAtStore \/ UpsertReturns
    \/ SelectIndicator \/ ToggleEditing \/ SubmitEdit \/ SaveAtStore \/ SaveReturns

SpecEdit == InitEdit /\ [][NextEdit]_vars

---------------------------------------------------------------------------
(* Two imports in flight: a second file is chosen while the first import    *)
(* waits for the store.  otherUpload is the second run of handleFileUpload. *)

\* the catch and finally blocks of the second import
OtherUploadFails ==
    /\ otherUpload' = [otherUpload EXCEPT !.pc = "failed",
                                          !.alerts = Append(@, "Error processing or saving file")]
    /\ isLoading' = FALSE
    /\ UNCHANGED <<indicators, selectedDomain>>

\* the files of two imports: ECON-01 with every text, and ECON-01 and ECON-02
RaceFiles ==
    { << TextRow("ECON-01", x) >> : x \in UploadTexts } \cup
    { << TextRow("ECON-02", FullTexts), TextRow("ECON-01", FullTexts) >> }

\* the second file is chosen and read once processCSVData of the first
\* import has returned and its merge waits for the store
OtherFileChosen ==
    /\ fileCount < MaxImports
    /\ upload.pc \notin {"idle", "done", "failed"}
    /\ otherUpload.pc = "idle"
    /\ data' \in RaceFiles
    /\ rowIdx' = 1
    /\ processedData' = <<>>
    /\ postIdx' = 1
    /\ phase' = "running"
    /\ otherUpload' = [UploadIdle EXCEPT !.pc = "reading"]
    /\ isLoading' = TRUE
    /\ fileCount' = fileCount + 1
    /\ UNCHANGED <<unitVars, mapVars, firstRun, store, indicators, selectedDomain, upload,
                   save, savedPolicies, load, selectedIndicator, isEditing, dashboard,
                   csvContent, editCount>>

\* processCSVData of the second import has returned
OtherStartMerge ==
    /\ otherUpload.pc = "reading"
    /\ phase \in {"returned", "threw"}
    /\ IF phase = "threw"
       THEN OtherUploadFails
       ELSE /\ otherUpload' = [otherUpload EXCEPT !.pc = "select",
                                                  !.newIndicators = SortById(processedData)]
            /\ UNCHANGED <<indicators, selectedDomain, isLoading>>
    /\ UNCHANGED <<unitVars, csvVars, mapVars, firstRun, store, upload, save, savedPolicies,
                   load, selectedIndicator, isEditing, dashboard, csvContent, fileCount,
                   editCount>>

\* the store answers the read of the second import
OtherSelectAtStore ==
    /\ otherUpload.pc = "select"
    /\ \E error \in BOOLEAN :
          otherUpload' = [otherUpload EXCEPT !.pc = "selected",
                                             !.existingData = IF error THEN {} ELSE store,
                                             !.error = error]
    /\ UNCHANGED <<unitVars, csvVars, mapVars, firstRun, storeVars, load, selectedIndicator,
                   isEditing, dashboard, csvContent, fileCount, editCount>>

\* mergeIndicatorData of the second import resumes
OtherSelectReturns ==
    /\ otherUpload.pc = "selected"
    /\ IF otherUpload.error
       THEN OtherUploadFails
       ELSE LET mergedIndicators == mergeIndicatorData(otherUpload.newIndicators,
                                                       otherUpload.existingData)
                supabaseData == [k \in 1..Len(mergedIndicators) |-> ToRow(mergedIndicators[k])]
            IN  IF Len(supabaseData) = 0
                THEN /\ UploadFinishes(mergedIndicators)
                     /\ otherUpload' = [otherUpload EXCEPT !.pc = "done",
                                                           !.mergedIndicators = mergedIndicators]
                ELSE /\ otherUpload' = [otherUpload EXCEPT !.pc = "upsert",
                                                           !.mergedIndicators = mergedIndicators,
                                                           !.supabaseData = supabaseData,
                                                           !.i = 0]
                     /\ UNCHANGED <<indicators, selectedDomain, isLoading>>
    /\ UNCHANGED <<unitVars, csvVars, mapVars, firstRun, store, upload, save, savedPolicies,
                   load, selectedIndicator, isEditing, dashboard, csvContent, fileCount,
                   editCount>>

\* the store executes an upsert of the second import, or answers with an error
OtherUpsertAtStore ==
    /\ otherUpload.pc = "upsert"
    /\ \E error \in BOOLEAN :
          LET records == UpsertArgument(otherUpload.supabaseData, otherUpload.i)
          IN  /\ store' = IF error THEN store ELSE Upsert(store, records)
              /\ otherUpload' = [otherUpload EXCEPT
                                    !.pc = "upserted",
                                    !.error = error,
                                    !.sent = Append(@, [ids |-> [k \in 1..Len(records) |->
                                                                    records[k].id],
                                                        error |-> error])]
    /\ UNCHANGED <<unitVars, csvVars, mapVars, firstRun, indicators, selectedDomain, isLoading,
                   upload, save, savedPolicies, load, selectedIndicator, isEditing, dashboard,
                   csvContent, fileCount, editCount>>

\* the loop of the second import resumes
OtherUpsertReturns ==
    /\ otherUpload.pc = "upserted"
    /\ IF otherUpload.error
       THEN OtherUploadFails
       ELSE IF otherUpload.i + BATCH_SIZE < Len(otherUpload.supabaseData)
       THEN /\ otherUpload' = [otherUpload EXCEPT !.pc = "upsert", !.i = @ + BATCH_SIZE]
            /\ UNCHANGED <<indicators, selectedDomain, isLoading>>
       ELSE /\ UploadFinishes(otherUpload.mergedIndicators)
            /\ otherUpload' = [otherUpload EXCEPT !.pc = "done"]
    /\ UNCHANGED <<unitVars, csvVars, mapVars, firstRun, store, upload, save, savedPolicies,
                   load, selectedIndicator, isEditing, dashboard, csvContent, fileCount,
                   editCount>>

\* the first file has been read and processCSVData starts on its rows
InitRace ==
    /\ UnitIdle
    /\ MapIdle
    /\ firstRun = NoRun
    /\ data \in RaceFiles
    /\ rowIdx = 1
    /\ processedData = <<>>
    /\ postIdx = 1
    /\ phase = "running"
    /\ store \in AppStores
    /\ indicators = LoadIndicators(store)
    /\ selectedDomain = ""
    /\ isLoading = TRUE
    /\ upload = UploadIdle
    /\ save = SaveIdle
    /\ savedPolicies = {}
    /\ ViewIdle
    /\ fileCount = 1
    /\ editCount = 0

NextRace ==
    \/ ProcessRow \/ PostProcess \/ Return
    \/ StartMerge \/ SelectAtStore \/ SelectReturns \/ UpsertAtStore \/ UpsertReturns
    \/ OtherFileChosen \/ OtherStartMerge \/ OtherSelectAtStore \/ OtherSelectReturns
    \/ OtherUpsertAtStore \/ OtherUpsertReturns

SpecRace == InitRace /\ [][NextRace]_vars

---------------------------------------------------------------------------
(* handleDownloadCSV: the CSV export of an indicator *)

\* category.split('_').map(word => word.charAt(0).toUpperCase() + word.slice(1)).join(' ')
formatCategoryName(category) ==
    CASE category = "sex" -> "Sex"
      [] category = "female" -> "Female"
      [] category = "male" -> "Male"
      [] category = "age_group" -> "Age Group"
      [] OTHER -> category

\* `${formatCategoryName(category)} - ${formatCategoryName(d.value)}`
ColumnName(category, value) ==
    formatCategoryName(category) \o " - " \o formatCategoryName(value)

\* the formatted names of the category and value tokens, none of which holds ' - '
FormattedNames == { formatCategoryName(LocaleOrder[i]) : i \in 1..Len(LocaleOrder) }

\* column.split(' - ').map(s => s.toLowerCase()), its first two elements
splitColumn(column) ==
    LET parts == CHOOSE p \in FormattedNames \X FormattedNames :
                     p[1] \o " - " \o p[2] = column
    IN  <<toLowerCase(parts[1]), toLowerCase(parts[2])>>

\* value.toFixed(1) of a whole number
toFixed1(v) ==
    IF v.n < 0 THEN "-" \o Decimal(-v.n) \o ".0" ELSE Decimal(v.n) \o ".0"

\* Array.prototype.flatMap on a list of lists
RECURSIVE flatMap(_)
flatMap(lists) == IF lists = <<>> THEN <<>> ELSE Head(lists) \o flatMap(Tail(lists))

\* the columns of the export: for each disaggregation type, the distinct
\* names of its entries over all points
disaggregationColumns(indicator) ==
    LET series == indicator.timeSeriesData
        types == indicator.disaggregationTypes
        namesOf(category, point) ==
            LET ofCategory == SelectSeq(point.disaggregation,
                                        LAMBDA d : d.category = category)
            IN  [k \in 1..Len(ofCategory) |-> ColumnName(category, ofCategory[k].value)]
    IN  flatMap([t \in 1..Len(types) |->
                    Distinct(flatMap([j \in 1..Len(series) |-> namesOf(types[t], series[j])]))])

\* the cell of a point in a column: the percentage of the first entry whose
\* lower-cased category and value are the lower-cased halves of the column
disaggregationValue(point, column) ==
    LET key == splitColumn(column)
        found == SelectSeq(point.disaggregation,
                           LAMBDA d : /\ toLowerCase(d.category) = key[1]
                                      /\ toLowerCase(d.value) = key[2])
    IN  IF Len(found) > 0 THEN toFixed1(found[1].percentage) ELSE ""

\* the lines of the file, each as its cells (joined by ','): the header,
\* then one line per point; no file without points
handleDownloadCSV(indicator) ==
    IF Len(indicator.timeSeriesData) = 0 THEN <<>>
    ELSE LET columns == disaggregationColumns(indicator)
             series == indicator.timeSeriesData
         IN  << <<"Year", "Total">> \o columns >> \o
             [j \in 1..Len(series) |->
                 <<series[j].year, toFixed1(series[j].total)>> \o
                 [c \in 1..Len(columns) |-> disaggregationValue(series[j], columns[c])]]

\* the Download CSV button of an indicator that processCSVData has returned
DownloadCSV ==
    /\ phase = "returned"
    /\ csvContent = <<>>
    /\ \E n \in 1..Len(processedData) : csvContent' = handleDownloadCSV(processedData[n])
    /\ UNCHANGED <<unitVars, csvVars, mapVars, firstRun, storeVars, load, selectedIndicator,
                   isEditing, otherUpload, dashboard, fileCount, editCount>>

NextExport == ProcessRow \/ PostProcess \/ Return \/ DownloadCSV

SpecExport == InitDisagg /\ [][NextExport]_vars

---------------------------------------------------------------------------
(* The dashboard view: the summary stats, the status filter and the cards *)

\* a >= b and a < b on number|null: null is 0, a comparison with NaN is false
JsNumber(v) == IF v.k = "null" THEN 0 ELSE v.n
JsGeq(a, b) == ~JsIsNaN(a) /\ ~JsIsNaN(b) /\ JsNumber(a) >= JsNumber(b)
JsLeq(a, b) == ~JsIsNaN(a) /\ ~JsIsNaN(b) /\ JsNumber(a) <= JsNumber(b)
JsLt(a, b) == ~JsIsNaN(a) /\ ~JsIsNaN(b) /\ JsNumber(a) < JsNumber(b)
JsGt(a, b) == ~JsIsNaN(a) /\ ~JsIsNaN(b) /\ JsNumber(a) > JsNumber(b)

\* indicator.indicatorType === 'direct' ? current < baseline : current > baseline
isDecliningFromBaseline(i) ==
    IF i.indicatorType = "direct" THEN JsLt(i.current, i.baseline)
    ELSE JsGt(i.current, i.baseline)

calculateSummaryStats(list) ==
    LET anyNoData(i) == isNoData(i.current) \/ isNoData(i.baseline) \/ isNoData(i.target)
        noData(i) == i.status = "No Data" \/ anyNoData(i) \/ Len(i.timeSeriesData) = 0
        indicatorsWithData == SelectSeq(list, LAMBDA i : i.status # "No Data" /\ ~anyNoData(i))
        baselineOnly(i) == i.status = "Baseline Only" \/ Len(i.timeSeriesData) <= 1
        multiYearIndicators ==
            SelectSeq(indicatorsWithData,
                      LAMBDA i : Len(i.timeSeriesData) > 1 /\ i.status # "Baseline Only")
        targetAchieved(i) ==
            /\ i.status = "Target Achieved"
            /\ IF i.indicatorType = "direct" THEN JsGeq(i.current, i.baseline)
               ELSE JsLeq(i.current, i.baseline)
        targetAchievedButDeclining(i) ==
            i.status = "Target Achieved" /\ isDecliningFromBaseline(i)
        improving(i) == i.status = "Improving"
        needsAttention(i) == i.status = "Getting Worse"
        littleChange(i) == i.status = "Little or No Change"
    IN  [total |-> Len(list),
         targetAchieved |-> Len(SelectSeq(multiYearIndicators, targetAchieved)),
         targetAchievedButDeclining |->
            Len(SelectSeq(multiYearIndicators, targetAchievedButDeclining)),
         improving |-> Len(SelectSeq(multiYearIndicators, improving)),
         needsAttention |-> Len(SelectSeq(multiYearIndicators, needsAttention)),
         littleChange |-> Len(SelectSeq(multiYearIndicators, littleChange)),
         noData |-> Len(SelectSeq(list, noData)),
         baselineOnly |-> Len(SelectSeq(list, baselineOnly))]

\* the value of every entry of STATUS_FILTERS
StatusFilterValues == {"all", "target-achieved", "improving", "getting-worse", "little-change",
                       "no-data", "baseline-only"}

\* STATUS_FILTERS.find(f => f.value === value).getCount(stats)
getCount(value, s) ==
    CASE value = "all" -> s.total
      [] value = "target-achieved" -> s.targetAchieved + s.targetAchievedButDeclining
      [] value = "improving" -> s.improving
      [] value = "getting-worse" -> s.needsAttention
      [] value = "little-change" -> s.littleChange
      [] value = "no-data" -> s.noData
      [] value = "baseline-only" -> s.baselineOnly

\* STATUS_FILTERS.find(f => f.value === value).filterFn(indicator)
filterFn(value, i) ==
    CASE value = "all" -> TRUE
      [] value = "target-achieved" -> i.status = "Target Achieved"
      [] value = "improving" -> i.status = "Improving"
      [] value = "getting-worse" -> i.status = "Getting Worse" /\ Len(i.timeSeriesData) > 1
      [] value = "little-change" -> i.status = "Little or No Change"
      [] value = "no-data" ->
            \/ i.status = "No Data"
            \/ isNoData(i.current) \/ isNoData(i.baseline) \/ isNoData(i.target)
            \/ Len(i.timeSeriesData) = 0
      [] value = "baseline-only" -> Len(i.timeSeriesData) <= 1 \/ i.status = "Baseline Only"

\* the two filters of the indicator list: the status filter, then the domain
Listed(list, statusFilter, domain) ==
    LET byStatus(i) ==
            IF statusFilter # "all"
            THEN IF isNoData(i.current) \/ isNoData(i.baseline) \/ isNoData(i.target)
                 THEN statusFilter = "no-data"
                 ELSE IF Len(i.timeSeriesData) <= 1
                 THEN statusFilter = "baseline-only"
                 ELSE filterFn(statusFilter, i)
            ELSE TRUE
        byDomain(i) == IF ~Truthy(domain) THEN TRUE ELSE i.domain = domain
    IN  SelectSeq(SelectSeq(list, byStatus), byDomain)

\* IndicatorCard.getStatusDisplay
getStatusDisplay(i) ==
    LET progress == calculateProgress(i.current, i.baseline, i.target, i.indicatorType)
    IN  IF isNoData(i.current) THEN "No Data"
        ELSE IF Len(i.timeSeriesData) <= 1 THEN "Baseline Data Only"
        ELSE IF i.status = "Target Achieved" /\ isDecliningFromBaseline(i)
        THEN "Target Achieved but Declining"
        ELSE IF i.status = "Improving"
        THEN IF ~FracLeq(Frac(25, 1), progress) THEN "Initial Progress"
             ELSE IF ~FracLeq(Frac(50, 1), progress) THEN "Making Progress"
             ELSE IF ~FracLeq(Frac(75, 1), progress) THEN "Significant Progress"
             ELSE "Near Target"
        ELSE i.status

\* a status filter card is clicked and the dashboard renders: the stats, the
\* cards of the list that pass the filters, and the label of each card
SetStatusFilter ==
    /\ \E value \in StatusFilterValues :
          LET cards == Listed(indicators, value, selectedDomain)
          IN  dashboard' = [statusFilter |-> value,
                            stats |-> calculateSummaryStats(indicators),
                            cards |-> [n \in 1..Len(cards) |-> cards[n].id],
                            labels |-> [n \in 1..Len(cards) |-> getStatusDisplay(cards[n])]]
    /\ UNCHANGED <<unitVars, csvVars, mapVars, firstRun, storeVars, load, selectedIndicator,
                   isEditing, otherUpload, csvContent, fileCount, editCount>>

\* the current value and the direction of an indicator in memory, with the
\* baseline 40 and the target 80: a current value that is missing, below the
\* baseline, between baseline and target or above the target
StatsFields ==
    ({NaN, Num(30), Num(45), Num(50), Num(90)} \X {"direct"}) \cup
    ({Num(30), Num(50)} \X {"reverse"})
StatsSeries ==
    { <<>>,
      << [year |-> "2019", total |-> Num(50), disaggregation |-> <<>>, district_data |-> <<>>] >>,
      << [year |-> "2019", total |-> Num(50), disaggregation |-> <<>>, district_data |-> <<>>],
         [year |-> "2020", total |-> Num(90), disaggregation |-> <<>>, district_data |-> <<>>] >> }

\* the indicators of the list: the status is the one processCSVData or
\* handleSubmit calculated, or the 'Baseline Only' that handleSaveIndicator
\* forces on at most one point
StatsIndicators ==
    UNION { LET i == [StoredIndicator("ECON-01", "", EmptyDetails) EXCEPT
                         !.current = f[1],
                         !.indicatorType = f[2],
                         !.timeSeriesData = series]
                calculated == calculateStatus(i.current, i.baseline, i.target, i.indicatorType,
                                              Len(series))
            IN  { [i EXCEPT !.status = status] :
                    status \in {calculated} \cup
                               (IF Len(series) <= 1 THEN {"Baseline Only"} ELSE {}) } :
            f \in StatsFields, series \in StatsSeries }

\* the list in memory holds one to MaxCards indicators, their ids in order
InitStats ==
    /\ UnitIdle
    /\ CsvIdle
    /\ MapIdle
    /\ firstRun = NoRun
    /\ store = {}
    /\ \E n \in 1..MaxCards :
          \E list \in [1..n -> StatsIndicators] :
              indicators = [k \in 1..n |-> [list[k] EXCEPT !.id = IdOf(k)]]
    /\ selectedDomain = ""
    /\ isLoading = FALSE
    /\ upload = UploadIdle
    /\ save = SaveIdle
    /\ savedPolicies = {}
    /\ ViewIdle
    /\ fileCount = 0
    /\ editCount = 0

SpecStats == InitStats /\ [][SetStatusFilter]_vars

---------------------------------------------------------------------------
(* Claims about the classification engine, checked under SpecUnit *)

\* the absence predicate of the data model, stated on the representation
Absent(v) == v.k \in {"null", "undef", "nan"} \/ v = Num(-999)
AnyAbsent == Absent(args.current) \/ Absent(args.baseline) \/ Absent(args.target)
Neg(v) == Num(-(v.n))
Percent(n) == [num |-> n, den |-> 1]

\* which of the six rules is the first to match the call's arguments
RuleMatches(i) ==
    LET c == args.current.n
        b == args.baseline.n
        t == args.target.n
        d == args.indicatorType = "direct"
    IN  CASE i = 1 -> AnyAbsent
          [] i = 2 -> args.numberOfYears <= 1
          [] i = 3 -> c = b
          [] i = 4 -> (d /\ c >= t) \/ (~d /\ c <= t)
          [] i = 5 -> (d /\ ~(c > b)) \/ (~d /\ ~(c < b))
          [] i = 6 -> TRUE

FirstRule == CHOOSE i \in 1..6 : RuleMatches(i) /\ \A j \in 1..(i - 1) : ~RuleMatches(j)

RuleLabel(i) ==
    LET c == args.current.n
        b == args.baseline.n
        d == args.indicatorType = "direct"
    IN  CASE i = 1 -> "No Data"
          [] i = 2 -> "Baseline Only"
          [] i = 3 -> "Baseline Only"
          [] i = 4 -> IF (d /\ c < b) \/ (~d /\ c > b) THEN "Getting Worse"
                      ELSE "Target Achieved"
          [] i = 5 -> "Getting Worse"
          [] i = 6 -> IF FracLeq(Percent(25),
                                 calculateProgress(args.current, args.baseline,
                                                   args.target, args.indicatorType))
                      THEN "Improving" ELSE "Little or No Change"

\* C1: calculateStatus returns one of the six labels, the one of the first
\* matching rule in the order no-data, numberOfYears <= 1, current = baseline,
\* target reached (declining or not), not improving, progress >= 25.
C1_StatusByFirstRule ==
    statusResult # "none" =>
        /\ statusResult \in StatusLabels
        /\ statusResult = RuleLabel(FirstRule)

\* a call decided by a late rule: two years, between baseline and target
C1_Witness ==
    /\ statusResult = "Little or No Change"
    /\ args.numberOfYears >= 2
    /\ args.indicatorType = "reverse"
    /\ FirstRule = 6

\* C2: when current, baseline or target is a no-data value (null, undefined,
\* NaN, -999) calculateStatus returns 'No Data' whatever the direction and
\* numberOfYears, and calculateProgress returns 0.
C2_NoDataWins ==
    AnyAbsent =>
        /\ statusResult # "none" => statusResult = "No Data"
        /\ progressResult # NoFrac => progressResult = Percent(0)

\* the sentinel -999 as the only absent argument, with a single year
C2_Witness ==
    /\ args.target = Num(-999)
    /\ ~Absent(args.current) /\ ~Absent(args.baseline)
    /\ args.numberOfYears = 1
    /\ statusResult = "No Data"
    /\ progressResult = Percent(0)

DirectTargetReached ==
    /\ ~AnyAbsent
    /\ args.indicatorType = "direct"
    /\ args.current.n >= args.target.n

\* C3 as stated: for valid current, baseline, target with 'direct' and
\* current >= target, calculateStatus returns 'Target Achieved' or 'Getting
\* Worse', and 'Getting Worse' iff current < baseline.
C3_Original ==
    (statusResult # "none" /\ DirectTargetReached) =>
        /\ statusResult \in {"Target Achieved", "Getting Worse"}
        /\ statusResult = "Getting Worse" <=> args.current.n < args.baseline.n

\* C3 amended: the same, for numberOfYears >= 2 and current # baseline; with
\* numberOfYears <= 1 or current = baseline the result is 'Baseline Only'.
C3_TargetReachedDirect ==
    (statusResult # "none" /\ DirectTargetReached) =>
        IF args.numberOfYears <= 1 \/ args.current.n = args.baseline.n
        THEN statusResult = "Baseline Only"
        ELSE /\ statusResult \in {"Target Achieved", "Getting Worse"}
             /\ statusResult = "Getting Worse" <=> args.current.n < args.baseline.n

\* target reached while below the baseline
C3_Witness ==
    /\ DirectTargetReached
    /\ args.numberOfYears >= 2
    /\ args.current.n < args.baseline.n
    /\ statusResult = "Getting Worse"

\* progress of the same call with another current
ProgressAt(c) == calculateProgress(c, args.baseline, args.target, args.indicatorType)
InRange(p) == FracLeq(Percent(0), p) /\ FracLeq(p, Percent(100))
ValidPair == ~Absent(args.baseline) /\ ~Absent(args.target)
Comparable(c) == c.k = "num" /\ args.current.k = "num" /\ c.n >= args.current.n

\* C4 as stated: the result is in [0,100]; for 'direct' with target >
\* baseline it is non-decreasing in current, for 'reverse' with target <
\* baseline non-increasing in current (over every number).
C4_Original ==
    progressResult # NoFrac =>
        /\ InRange(progressResult)
        /\ (ValidPair /\ args.indicatorType = "direct" /\ args.target.n > args.baseline.n) =>
              \A c \in Values : Comparable(c) => FracLeq(progressResult, ProgressAt(c))
        /\ (ValidPair /\ args.indicatorType = "reverse" /\ args.target.n < args.baseline.n) =>
              \A c \in Values : Comparable(c) => FracLeq(ProgressAt(c), progressResult)

\* C4 amended: the same, the monotonicity taken over currents that are not
\* the no-data sentinel -999 (for which the result is 0).
C4_ProgressRangeMonotone ==
    progressResult # NoFrac =>
        /\ InRange(progressResult)
        /\ (ValidPair /\ args.indicatorType = "direct" /\ args.target.n > args.baseline.n) =>
              \A c \in Values : (Comparable(c) /\ ~Absent(c) /\ ~Absent(args.current))
                                    => FracLeq(progressResult, ProgressAt(c))
        /\ (ValidPair /\ args.indicatorType = "reverse" /\ args.target.n < args.baseline.n) =>
              \A c \in Values : (Comparable(c) /\ ~Absent(c) /\ ~Absent(args.current))
                                    => FracLeq(ProgressAt(c), progressResult)

\* a reverse call strictly between target and baseline
C4_Witness ==
    /\ progressResult # NoFrac
    /\ ValidPair /\ ~Absent(args.current)
    /\ args.indicatorType = "reverse"
    /\ args.target.n < args.current.n /\ args.current.n < args.baseline.n
    /\ progressResult # Percent(0) /\ progressResult # Percent(100)

\* C5: calculateProgress(c, b, t, 'direct') equals
\* calculateProgress(-c, -b, -t, 'reverse') for c, b, t that are not no-data
\* and whose negations are not no-data.
C5_FlipSymmetry ==
    (/\ progressResult # NoFrac
     /\ args.indicatorType = "direct"
     /\ ~AnyAbsent
     /\ ~Absent(Neg(args.current)) /\ ~Absent(Neg(args.baseline)) /\ ~Absent(Neg(args.target)))
    => progressResult = calculateProgress(Neg(args.current), Neg(args.baseline),
                                          Neg(args.target), "reverse")

---------------------------------------------------------------------------
(* Claims about processCSVData, checked under SpecCSV and SpecSeries *)

Returned == phase = "returned"
Indicators == {processedData[i] : i \in 1..Len(processedData)}
Points(ind) == {ind.timeSeriesData[j] : j \in 1..Len(ind.timeSeriesData)}

\* the first row of the input that carries the id
FirstRowOf(id) ==
    data[CHOOSE i \in 1..Len(data) :
            data[i].IndicatorID = id /\ \A k \in 1..(i - 1) : data[k].IndicatorID # id]

\* a field that is absent ('') or does not parse to a number
Unparseable(field) == field = "" \/ parseFloat(field) = NaN

\* the row has a Total that parses to a number together with a Year
HasPoint(row) == ~Unparseable(row.Total) /\ row.Year # ""

\* C6: after processCSVData an indicator with one time-series point has status
\* 'Baseline Only' whatever its current, baseline and target are.
C6_OnePointBaselineOnly ==
    Returned => \A ind \in Indicators :
        Len(ind.timeSeriesData) = 1 => ind.status = "Baseline Only"

\* C7: after processCSVData an indicator with an empty time series has status
\* 'No Data' and warning 'No time series data available'.
C7_EmptySeriesNoData ==
    Returned => \A ind \in Indicators :
        Len(ind.timeSeriesData) = 0 =>
            /\ ind.status = "No Data"
            /\ ind.warning = "No time series data available"

ScenarioFirstRow ==
    MetaRow("ECON-01", "2020", "50",
            [Current |-> "", Baseline |-> "40", Target |-> "80", IndicatorType |-> "direct"])
ScenarioSecondRow(total) ==
    MetaRow("ECON-01", "2021", total,
            [Current |-> "", Baseline |-> "", Target |-> "", IndicatorType |-> ""])

IndicatorProgress(ind) ==
    calculateProgress(ind.current, ind.baseline, ind.target, ind.indicatorType)

C9_StrictlyAscendingYears ==
    Returned => \A ind \in Indicators :
        \A j \in 1..(Len(ind.timeSeriesData) - 1) :
            parseInt(ind.timeSeriesData[j].year).n < parseInt(ind.timeSeriesData[j + 1].year).n

\* the rows already handled by data.forEach
Handled == {data[i] : i \in 1..(rowIdx - 1)}
HandledIndex(id, year) ==
    {i \in 1..(rowIdx - 1) : data[i].IndicatorID = id /\ data[i].Year = year /\ HasPoint(data[i])}
Min(S) == CHOOSE x \in S : \A y \in S : x <= y
HasDisaggregation(row) ==
    row.DisaggregationCategory # "" /\ row.DisaggregationValue # "" /\ ~Unparseable(row.Percentage)
HasDistrict(row) == row.district_code # "" /\ row.district_name # "" /\ row.value # ""

\* C10: at every step, for each indicator and each year (the Year string of a
\* row) there is exactly one point when a row of that id and year with a
\* parseable Total has been handled and none otherwise; its total is that of
\* the first such row; every later such row leaves the total alone and has
\* its disaggregation and district entry in that same point.
C10_OnePointPerYearFirstTotal ==
    /\ \A r \in Handled : HasIndicator(processedData, r.IndicatorID)
    /\ \A ind \in Indicators : \A year \in CsvYears \cup SeriesYears :
         LET rowsOf == HandledIndex(ind.id, year)
             here == {j \in 1..Len(ind.timeSeriesData) : ind.timeSeriesData[j].year = year}
         IN  IF rowsOf = {} THEN here = {}
             ELSE /\ Cardinality(here) = 1
                  /\ \A j \in here :
                       LET point == ind.timeSeriesData[j]
                       IN  /\ point.total = parseFloat(data[Min(rowsOf)].Total)
                           /\ \A i \in rowsOf :
                                /\ HasDisaggregation(data[i]) =>
                                     \E k \in 1..Len(point.disaggregation) :
                                        /\ point.disaggregation[k].category
                                               = data[i].DisaggregationCategory
                                        /\ point.disaggregation[k].value
                                               = data[i].DisaggregationValue
                                /\ HasDistrict(data[i]) =>
                                     \E k \in 1..Len(point.district_data) :
                                        point.district_data[k].district_code
                                            = padStart4(data[i].district_code)

\* two rows of one year with different totals, the later one with a
\* disaggregation entry, have been handled and the function has returned
C10_Witness ==
    /\ Returned
    /\ Len(data) >= 2
    /\ data[1].Year = "2021" /\ data[2].Year = "2021"
    /\ data[1].Total = "50" /\ data[2].Total = "90"
    /\ HasDisaggregation(data[2])
    /\ Len(processedData[1].timeSeriesData) = 1
    /\ processedData[1].timeSeriesData[1].total = Num(50)
    /\ Len(processedData[1].timeSeriesData[1].disaggregation) = 1
    /\ processedData[1].timeSeriesData[1].district_data[1].district_code = "0012"

---------------------------------------------------------------------------
(* Claims about the disaggregation entries, checked under SpecDisagg *)

SamePair(e, row) ==
    /\ e.category = row.DisaggregationCategory
    /\ e.value = row.DisaggregationValue

\* the handled rows that offer an entry of the pair of e to the point of the year
OfferingRows(id, year, e) ==
    { i \in HandledIndex(id, year) : HasDisaggregation(data[i]) /\ SamePair(e, data[i]) }

InLocaleOrder(a, b) ==
    \/ LocaleRank(a.category) < LocaleRank(b.category)
    \/ /\ a.category = b.category
       /\ LocaleRank(a.value) < LocaleRank(b.value)

\* C11: within one time-series point no two disaggregation entries share the
\* pair (category, value); the entry of a pair carries the percentage of the
\* first row that offered it, later rows of the pair being dropped; and in the
\* returned result the entries are ordered by category, then by value
C11_DisaggregationUniqueFirstSorted ==
    \A n \in 1..Len(processedData) :
        LET ind == processedData[n]
        IN  \A j \in 1..Len(ind.timeSeriesData) :
                LET point == ind.timeSeriesData[j]
                    d == point.disaggregation
                IN  /\ \A k1, k2 \in 1..Len(d) :
                           (d[k1].category = d[k2].category /\ d[k1].value = d[k2].value)
                           => k1 = k2
                    /\ \A k \in 1..Len(d) :
                           LET offers == OfferingRows(ind.id, point.year, d[k])
                           IN  /\ offers # {}
                               /\ d[k].percentage = parseFloat(data[Min(offers)].Percentage)
                    /\ Returned => \A k \in 1..(Len(d) - 1) : InLocaleOrder(d[k], d[k + 1])

\* a returned point whose entries were offered out of order and one of whose
\* pairs was offered twice with different percentages
C11_Witness ==
    /\ Returned
    /\ \E n \in 1..Len(processedData) :
         \E j \in 1..Len(processedData[n].timeSeriesData) :
            LET point == processedData[n].timeSeriesData[j]
                d == point.disaggregation
            IN  /\ Len(d) = 2
                /\ \E i1, i2 \in OfferingRows(processedData[n].id, point.year, d[2]) :
                       i1 < i2 /\ data[i1].Percentage # data[i2].Percentage
                /\ Min(OfferingRows(processedData[n].id, point.year, d[2]))
                     < Min(OfferingRows(processedData[n].id, point.year, d[1]))

\* the categories of the disaggregation entries of the indicator's points
EntryCategories(ind) ==
    UNION { { point.disaggregation[k].category : k \in 1..Len(point.disaggregation) } :
              point \in Points(ind) }

TypeNames(ind) == { ind.disaggregationTypes[k] : k \in 1..Len(ind.disaggregationTypes) }

\* C13: for every returned indicator disaggregationTypes is exactly the set of
\* the categories of the disaggregation entries of its time-series points
C13_TypesAreEntryCategories ==
    Returned => \A ind \in Indicators : TypeNames(ind) = EntryCategories(ind)

---------------------------------------------------------------------------
(* Claims about the Indicator ID of a row, checked under SpecIds *)

\* C14: a row whose Indicator ID is empty creates no indicator and adds to no
\* indicator's time series: no indicator of the result has the empty id
C14_EmptyIdDropped ==
    \A i \in 1..Len(processedData) : processedData[i].id # ""

\* C15: processCSVData raises for no sequence of rows
C15_NeverRaises == phase # "threw"

---------------------------------------------------------------------------
(* Claims about the district entries and the map, checked under SpecMap *)

\* code is raw with as many '0' in front as bring it to 4 characters
PaddedTo4(raw, code) ==
    /\ Len(code) = 4
    /\ \E zeros \in {"", "0", "00", "000"} : code = zeros \o raw

\* the handled rows that offer a district entry of the stored code to the
\* point of the year
DistrictRows(id, year, code) ==
    { i \in HandledIndex(id, year) :
        HasDistrict(data[i]) /\ PaddedTo4(data[i].district_code, code) }

\* every stored code is the padded code of a row, once per point, with the
\* name and value of the first row of that padded code
DistrictEntriesPadded ==
    \A n \in 1..Len(processedData) :
        LET ind == processedData[n]
        IN  \A j \in 1..Len(ind.timeSeriesData) :
                LET point == ind.timeSeriesData[j]
                    dd == point.district_data
                IN  /\ \A k1, k2 \in 1..Len(dd) :
                           dd[k1].district_code = dd[k2].district_code => k1 = k2
                    /\ \A i \in HandledIndex(ind.id, point.year) :
                           HasDistrict(data[i]) =>
                              \E k \in 1..Len(dd) :
                                 PaddedTo4(data[i].district_code, dd[k].district_code)
                    /\ \A k \in 1..Len(dd) :
                           LET rows == DistrictRows(ind.id, point.year, dd[k].district_code)
                           IN  /\ rows # {}
                               /\ dd[k].district_name = data[Min(rows)].district_name
                               /\ dd[k].value = parseFloat(data[Min(rows)].value)

\* the district entries of the point the layer was drawn for
RenderedDistricts ==
    LET ind == CHOOSE x \in Indicators : x.id = mapLayer.indicatorId
        point == CHOOSE pt \in Points(ind) : pt.year = selectedYear
    IN  {point.district_data[k] : k \in 1..Len(point.district_data)}

\* the raw codes of the rows that gave the rendered point its entries
RenderedRawCodes ==
    { data[i].district_code :
        i \in {h \in HandledIndex(mapLayer.indicatorId, selectedYear) : HasDistrict(data[h])} }

\* a feature is joined exactly when its dcode equals a stored code, and an
\* unmatched feature is white
LayerJoinsOnPaddedCode ==
    mapLayer.state = "drawn" =>
        /\ \A d \in GeoDcodes :
               IF \E e \in RenderedDistricts : e.district_code = d
               THEN mapLayer.fill[d].color = "rgb"
               ELSE mapLayer.fill[d] = White
        /\ "12" \in RenderedRawCodes => mapLayer.fill["0012"].color = "rgb"
        /\ mapLayer.fill["12"] = White

\* C12: every district_code is stored left-padded with '0' to 4 characters,
\* at most once per point with the first row's entry kept; the map joins a
\* feature only when its dcode equals the stored padded code, so the input
\* code '12' is joined by dcode '0012' and not by dcode '12', and a feature
\* without a match is filled white
C12_PaddedCodesJoinExactly ==
    /\ DistrictEntriesPadded
    /\ LayerJoinsOnPaddedCode

\* a layer drawn for a point to which the codes '12' and '0012' were both
\* offered with different values: dcode '0012' is joined and carries the
\* first value, dcode '12' and the unmatched '1002' are white
C12_Witness ==
    /\ mapLayer.state = "drawn"
    /\ \E i1, i2 \in HandledIndex(mapLayer.indicatorId, selectedYear) :
          /\ i1 < i2
          /\ data[i1].district_code = "12" /\ data[i2].district_code = "0012"
          /\ data[i1].value = "90" /\ data[i2].value = "50"
          /\ \A h \in HandledIndex(mapLayer.indicatorId, selectedYear) : h >= i1
    /\ \E e \in RenderedDistricts : e.district_code = "1001" /\ e.value = Num(50)
    /\ mapLayer.fill["0012"] = Rgb(Frac(1, 1))
    /\ mapLayer.fill["12"] = White
    /\ mapLayer.fill["1002"] = White

---------------------------------------------------------------------------
(* Claims about the order of the rows, checked under SpecPerm *)

\* both calls have returned
BothReturned == firstRun.done /\ phase = "returned"

ResultIds(result) == {result[i].id : i \in 1..Len(result)}
SeriesOf(result, id) == (CHOOSE ind \in {result[i] : i \in 1..Len(result)} : ind.id = id).timeSeriesData

\* the points of a series as the sequence of their years and totals
YearTotals(series) == [j \in 1..Len(series) |-> <<series[j].year, series[j].total>>]

TotalsAgree ==
    \A i, j \in 1..Len(data) :
        (/\ data[i].IndicatorID = data[j].IndicatorID
         /\ data[i].Year = data[j].Year
         /\ HasPoint(data[i]) /\ HasPoint(data[j]))
        => parseFloat(data[i].Total) = parseFloat(data[j].Total)

\* no two Year strings of an id that give a point denote the same number
YearsUnaliased ==
    \A i, j \in 1..Len(data) :
        (/\ data[i].IndicatorID = data[j].IndicatorID
         /\ HasPoint(data[i]) /\ HasPoint(data[j])
         /\ parseInt(data[i].Year) = parseInt(data[j].Year))
        => data[i].Year = data[j].Year

NumericYears(series) == [j \in 1..Len(series) |-> parseInt(series[j].year)]
PointSet(series) == {YearTotals(series)[j] : j \in 1..Len(series)}

---------------------------------------------------------------------------
(* Claims about the merge with the store, checked under SpecUpload *)

\* mergeIndicatorData has returned in this upload
Merged == Len(upload.mergedIndicators) > 0

HasCounterpart(id) == \E item \in upload.existingData : item.id = id
Counterpart(id) == CHOOSE item \in upload.existingData : item.id = id

\* the ingested text when it is non-empty, else the stored one
Preferred(ingested, stored) == IF ingested # "" THEN ingested ELSE stored

\* one merged indicator per ingested one, in the same order, the four text
\* fields preferring the ingested value over the stored one
MergedTexts ==
    /\ Len(upload.mergedIndicators) = Len(upload.newIndicators)
    /\ \A k \in 1..Len(upload.newIndicators) :
          LET new == upload.newIndicators[k]
              merged == upload.mergedIndicators[k]
          IN  /\ merged.id = new.id
              /\ IF HasCounterpart(new.id)
                 THEN LET stored == Counterpart(new.id)
                      IN  /\ merged.description = Preferred(new.description, stored.description)
                          /\ merged.details.methodology =
                                Preferred(new.details.methodology, stored.details.methodology)
                          /\ merged.details.targetMethod =
                                Preferred(new.details.targetMethod, stored.details.targetMethod)
                          /\ merged.details.dataSources =
                                IF new.details.dataSources # <<>> THEN new.details.dataSources
                                ELSE stored.details.dataSources
                 ELSE /\ merged.description = new.description
                      /\ merged.details.methodology = new.details.methodology
                      /\ merged.details.targetMethod = new.details.targetMethod
                      /\ merged.details.dataSources = new.details.dataSources

\* the fields of an Indicator outside description and details
OtherFields ==
    {"id", "domain", "subdomain", "title", "unit", "indicatorType", "target", "baseline",
     "current", "currentYear", "warning", "status", "disaggregationTypes", "timeSeriesData"}

OtherFieldsIngested ==
    \A k \in 1..Len(upload.newIndicators) :
        \A f \in OtherFields : upload.mergedIndicators[k][f] = upload.newIndicators[k][f]

\* C18 as stated: the four text fields prefer the ingested value, every other
\* field, relevantPolicies included, is the ingested one
C18_Original ==
    Merged =>
        /\ MergedTexts
        /\ OtherFieldsIngested
        /\ \A k \in 1..Len(upload.newIndicators) :
              upload.mergedIndicators[k].details.relevantPolicies =
                 upload.newIndicators[k].details.relevantPolicies

\* C18 (amended): mergeIndicatorData returns one indicator per ingested one in
\* the same order; description, methodology, dataSources and targetMethod are
\* the ingested value when non-empty and else the stored one (empty when there
\* is none); relevantPolicies is the stored one when the id has a stored
\* counterpart and the ingested one otherwise; every other field is ingested
C18_MergePrefersIngestedKeepsPolicies ==
    Merged =>
        /\ MergedTexts
        /\ OtherFieldsIngested
        /\ \A k \in 1..Len(upload.newIndicators) :
              LET new == upload.newIndicators[k]
              IN  upload.mergedIndicators[k].details.relevantPolicies =
                     IF HasCounterpart(new.id)
                     THEN Counterpart(new.id).details.relevantPolicies
                     ELSE new.details.relevantPolicies

\* a merge of two ingested indicators: the first has a stored counterpart with
\* text and policies, brings a description of its own and no methodology; the
\* second has no counterpart
C18_Witness ==
    /\ Merged
    /\ Len(upload.newIndicators) = 2
    /\ HasCounterpart(upload.newIndicators[1].id)
    /\ ~HasCounterpart(upload.newIndicators[2].id)
    /\ Counterpart(upload.newIndicators[1].id).description = "Stored description"
    /\ upload.newIndicators[1].description = "New description"
    /\ upload.newIndicators[1].details.methodology = ""
    /\ upload.mergedIndicators[1].description = "New description"
    /\ upload.mergedIndicators[1].details.methodology = "Stored method"
    /\ upload.mergedIndicators[1].details.relevantPolicies = <<"Policy A">>

\* C19: when an upload has completed, the stored relevantPolicies of every
\* indicator are those last written by handleSaveIndicator, however the steps
\* of the upload and of the saves interleave
C19_PoliciesFromLastSave ==
    upload.pc = "done" =>
        \A row \in store :
            \A p \in savedPolicies :
                p[1] = row.id => row.details.relevantPolicies = p[2]

---------------------------------------------------------------------------
(* Claims about the batch loop, checked under SpecBatch *)

RECURSIVE Concat(_)
Concat(seqs) == IF seqs = <<>> THEN <<>> ELSE Concat(SubSeq(seqs, 1, Len(seqs) - 1)) \o seqs[Len(seqs)]

SentIds == Concat([k \in 1..Len(upload.sent) |-> upload.sent[k].ids])

\* C20: the records are sent in consecutive chunks of at most BATCH_SIZE, each
\* record in exactly one chunk and in order; after a chunk that failed no
\* chunk is sent, and the upload ends with exactly one alert
C20_ChunkedSequential ==
    /\ \A k \in 1..Len(upload.sent) : Len(upload.sent[k].ids) <= BATCH_SIZE
    /\ upload.pc = "done" =>
          SentIds = [k \in 1..Len(upload.supabaseData) |-> upload.supabaseData[k].id]
    /\ \A k \in 1..(Len(upload.sent) - 1) : ~upload.sent[k].error
    /\ Len(upload.alerts) = IF upload.pc = "failed" THEN 1 ELSE 0

---------------------------------------------------------------------------
(* Claims about the load and the imports, checked under SpecApp *)

\* the step in which loadIndicators resumes with an error of its read
LoadReadFails == load.pc = "selected" /\ load.error /\ load'.pc # "selected"

\* the step in which mergeIndicatorData resumes with an error of its read
ImportReadFails == upload.pc = "selected" /\ upload.error /\ upload'.pc # "selected"

\* C21: a failed read of the store, in loadIndicators or in mergeIndicatorData
\* during an import, leaves the in-memory list, the selected domain and the
\* table as they were; the handler ends in its catch block (the import with
\* one alert), its finally block clears the loading flag, and the failed
\* import has sent no upsert and sends none afterwards.
C21_ReadFailureKeepsList ==
    [][ /\ LoadReadFails =>
              /\ indicators' = indicators
              /\ selectedDomain' = selectedDomain
              /\ store' = store
              /\ load'.pc = "failed"
              /\ isLoading' = FALSE
        /\ ImportReadFails =>
              /\ indicators' = indicators
              /\ selectedDomain' = selectedDomain
              /\ store' = store
              /\ upload'.pc = "failed"
              /\ upload'.alerts = <<"Error processing or saving file">>
              /\ upload'.sent = <<>>
              /\ isLoading' = FALSE
        /\ (upload.pc = "failed" /\ upload'.pc = "failed") =>
              upload'.sent = upload.sent /\ upload'.alerts = upload.alerts ]_vars

\* the load has failed, and an import has failed on its read while the list
\* of an earlier import was in memory
C21_Witness ==
    /\ load.pc = "failed"
    /\ upload.pc = "failed"
    /\ upload.error
    /\ upload.sent = <<>>
    /\ phase = "returned"
    /\ indicators # <<>>
    /\ selectedDomain # ""

---------------------------------------------------------------------------
(* Claims about a failing batch, checked under SpecBatch *)

\* some request of the import was answered without an error
SomeBatchWritten(u) == \E k \in 1..Len(u.sent) : ~u.sent[k].error

\* every record sent in a request that succeeded is in the table as it was sent
WrittenBatchesStay(u, table) ==
    \A k \in 1..Len(u.sent) :
        ~u.sent[k].error =>
            \A j \in 1..Len(u.sent[k].ids) :
                \E r \in 1..Len(u.supabaseData) :
                    /\ u.supabaseData[r].id = u.sent[k].ids[j]
                    /\ u.supabaseData[r] \in table

\* the table holds a record of the import that the list in memory does not show
StoreAheadOfMemory(u, table, list) ==
    \E r \in 1..Len(u.supabaseData) :
        /\ u.supabaseData[r] \in table
        /\ \A n \in 1..Len(list) : ToRow(list[n]) # u.supabaseData[r]

\* C22 as stated: once an upsert of an import has failed after an earlier one
\* succeeded, the earlier records are in the table, the in-memory list is the
\* list of the imported indicators, and list and table disagree.
C22_Original ==
    (upload.pc = "failed" /\ SomeBatchWritten(upload)) =>
        /\ WrittenBatchesStay(upload, store)
        /\ indicators = upload.mergedIndicators
        /\ StoreAheadOfMemory(upload, store, indicators)

\* C22 amended: the step in which an import fails on an upsert after an
\* earlier upsert succeeded leaves the table and the in-memory list as they
\* were; the records of the requests that succeeded are in the table, the
\* list is not the imported one, and the table holds imported records that
\* the list does not show.
C22_PartialFailureKeepsOldList ==
    [][ (upload.pc = "upserted" /\ upload'.pc = "failed" /\ SomeBatchWritten(upload)) =>
            /\ store' = store
            /\ indicators' = indicators
            /\ WrittenBatchesStay(upload', store')
            /\ indicators' # upload'.mergedIndicators
            /\ StoreAheadOfMemory(upload', store', indicators') ]_vars

\* an import of more than BATCH_SIZE records has failed on its second request
C22_Witness ==
    /\ upload.pc = "failed"
    /\ Len(upload.sent) = 2
    /\ ~upload.sent[1].error
    /\ upload.sent[2].error
    /\ Len(upload.supabaseData) > BATCH_SIZE
    /\ store # {}

---------------------------------------------------------------------------
(* Claims about imports and edits, checked under SpecEdit *)

\* the status is the one the classification engine gives for the fields, or
\* it is 'Baseline Only' on at most one time-series point
StatusOfOwnFields(status, current, baseline, target, indicatorType, points) ==
    /\ status \in StatusLabels
    /\ \/ status = calculateStatus(current, baseline, target, indicatorType, points)
       \/ status = "Baseline Only" /\ points <= 1

\* C23: at every point of any sequence of imports and saves, every indicator
\* in memory and every record of the table has a status that is one of the
\* six labels and is calculateStatus of its own current, baseline, target,
\* indicator type and number of time-series points, or is 'Baseline Only'
\* with at most one point.
C23_StatusFromEngine ==
    /\ \A n \in 1..Len(indicators) :
          LET i == indicators[n]
          IN  StatusOfOwnFields(i.status, i.current, i.baseline, i.target, i.indicatorType,
                                Len(i.timeSeriesData))
    /\ \A row \in store :
          StatusOfOwnFields(row.status, row.current, row.baseline, row.target,
                            row.indicator_type, Len(row.time_series_data))

\* after two imports and a saved edit, an indicator of two points is in
\* memory and in the table with 'Getting Worse', and the table also holds a
\* record without data
C23_Witness ==
    /\ fileCount = 2
    /\ editCount = 1
    /\ save.alert = "Changes saved successfully"
    /\ \E n \in 1..Len(indicators) :
          /\ Len(indicators[n].timeSeriesData) = 2
          /\ indicators[n].status = "Getting Worse"
          /\ ToRow(indicators[n]) \in store
    /\ \E row \in store : row.status = "No Data"

---------------------------------------------------------------------------
(* Claims about two imports in flight, checked under SpecRace *)

\* the step in which the store executes an upsert of the import without an error
UpsertWritten(u, v) == u.pc = "upsert" /\ v.pc = "upserted" /\ ~v.error

\* C24: imports are not serialised. Whatever the other import has read or
\* written, and whatever was written since this import's own read, an upsert
\* of an import that the store executes leaves the table holding every
\* record of that request, computed from the import's own earlier read: no
\* lock and no version check stands in its way.  (The interleaving in which
\* the second import overwrites the first with a merge computed from a read
\* older than the first's write is C24_Witness.)
C24_ImportsOverwriteUnchecked ==
    [][ /\ UpsertWritten(upload, upload') =>
              /\ \A k \in 1..Len(upload.supabaseData) : upload.supabaseData[k] \in store'
              /\ upload.supabaseData =
                    [k \in 1..Len(upload.newIndicators) |->
                        ToRow(mergeIndicatorData(upload.newIndicators,
                                                 upload.existingData)[k])]
        /\ UpsertWritten(otherUpload, otherUpload') =>
              /\ \A k \in 1..Len(otherUpload.supabaseData) :
                    otherUpload.supabaseData[k] \in store'
              /\ otherUpload.supabaseData =
                    [k \in 1..Len(otherUpload.newIndicators) |->
                        ToRow(mergeIndicatorData(otherUpload.newIndicators,
                                                 otherUpload.existingData)[k])] ]_vars

\* both imports have ended without an error; for an id of both files the
\* table holds the record of the second import, which differs from the one
\* the first import wrote and from the one the second import would have
\* sent had its read seen the first import's record
C24_Witness ==
    /\ upload.pc = "done"
    /\ otherUpload.pc = "done"
    /\ \E k \in 1..Len(upload.supabaseData), j \in 1..Len(otherUpload.supabaseData) :
          /\ upload.supabaseData[k].id = otherUpload.supabaseData[j].id
          /\ otherUpload.supabaseData[j] \in store
          /\ upload.supabaseData[k] # otherUpload.supabaseData[j]
          /\ upload.supabaseData[k] \notin otherUpload.existingData
          /\ otherUpload.supabaseData[j] #
                ToRow(mergeIndicatorData(otherUpload.newIndicators,
                                         {upload.supabaseData[k]})[j])

---------------------------------------------------------------------------
(* Claims about the CSV export, checked under SpecExport *)

\* the distinct (category, value) pairs of the entries of an indicator
EntryPairs(indicator) ==
    UNION { { <<point.disaggregation[k].category, point.disaggregation[k].value>> :
                k \in 1..Len(point.disaggregation) } :
            point \in { indicator.timeSeriesData[j] : j \in 1..Len(indicator.timeSeriesData) } }

\* the cell of a point for a pair: the percentage of its entry, '' without one
ExpectedCell(point, pair) ==
    LET entries == { k \in 1..Len(point.disaggregation) :
                        /\ point.disaggregation[k].category = pair[1]
                        /\ point.disaggregation[k].value = pair[2] }
    IN  IF entries = {} THEN ""
        ELSE toFixed1(point.disaggregation[CHOOSE k \in entries : TRUE].percentage)

\* the file is the export of the indicator for some order of its pairs
IsExportOf(content, indicator) ==
    LET pairs == EntryPairs(indicator)
        series == indicator.timeSeriesData
        n == Cardinality(pairs)
    IN  /\ Len(content) = 1 + Len(series)
        /\ \A l \in 1..Len(content) : Len(content[l]) = 2 + n
        /\ content[1][1] = "Year"
        /\ content[1][2] = "Total"
        /\ \E order \in { f \in [1..n -> pairs] : \A a, b \in 1..n : f[a] = f[b] => a = b } :
              \A j \in 1..Len(series) :
                  /\ content[1 + j][1] = series[j].year
                  /\ content[1 + j][2] = toFixed1(series[j].total)
                  /\ \A c \in 1..n : content[1 + j][2 + c] = ExpectedCell(series[j], order[c])

\* C25: the export of an indicator has the header Year, Total and one column
\* per distinct (category, value) pair, and one line per point; the cell of
\* a pair's column holds the percentage with one decimal exactly when the
\* point has an entry of that category and value, and is empty otherwise.
C25_ExportCellsMatchEntries ==
    csvContent # <<>> =>
        \E n \in 1..Len(processedData) : IsExportOf(csvContent, processedData[n])

\* the steps in which handleSaveIndicator resumes after its upsert
SaveSucceeds == save.pc = "upserted" /\ ~save.error /\ save'.pc = "idle"
SaveFails == save.pc = "upserted" /\ save.error /\ save'.pc = "idle"

\* C26: when handleSaveIndicator resumes after a successful upsert, the list
\* keeps its length and order, the entries of the saved id are the saved
\* record and every other entry is as before (a list without the id is left
\* as it is), selectedIndicator is the saved record and the form is closed;
\* when the upsert failed, the list, selectedIndicator and the edit mode are
\* as before.
C26_SaveReplacesOneEntry ==
    [][ /\ SaveSucceeds =>
              /\ Len(indicators') = Len(indicators)
              /\ \A n \in 1..Len(indicators) :
                    indicators'[n] = IF indicators[n].id = save.updated[1].id
                                     THEN save.updated[1] ELSE indicators[n]
              /\ selectedIndicator' = <<save.updated[1]>>
              /\ isEditing' = FALSE
        /\ SaveFails =>
              /\ indicators' = indicators
              /\ selectedIndicator' = selectedIndicator
              /\ isEditing' = isEditing ]_vars

\* an edit of an indicator has been saved after an import replaced the list
\* by one without its id: the list holds other indicators only
C26_Witness ==
    /\ save.alert = "Changes saved successfully"
    /\ save.pc = "idle"
    /\ ~isEditing
    /\ indicators # <<>>
    /\ selectedIndicator # <<>>
    /\ \A n \in 1..Len(indicators) : indicators[n].id # selectedIndicator[1].id
    /\ ToRow(selectedIndicator[1]) \in store

---------------------------------------------------------------------------
(* Claims about the dashboard view, checked under SpecStats *)

\* the status of every indicator of the list is calculateStatus of its own fields
StatusesCalculated ==
    \A n \in 1..Len(indicators) :
        indicators[n].status =
            calculateStatus(indicators[n].current, indicators[n].baseline, indicators[n].target,
                            indicators[n].indicatorType, Len(indicators[n].timeSeriesData))

\* C27: in a list whose statuses are calculateStatus of the indicators' own
\* fields, an indicator is 'Target Achieved' only with two or more years, the
\* target reached and the current value strictly on the improving side of
\* the baseline; so the stats count no 'Target Achieved but Declining' and
\* no card shows that label
C27_NoAchievedButDeclining ==
    StatusesCalculated =>
        /\ \A n \in 1..Len(indicators) :
              LET i == indicators[n]
              IN  i.status = "Target Achieved" =>
                    /\ Len(i.timeSeriesData) >= 2
                    /\ i.current.k = "num" /\ i.baseline.k = "num" /\ i.target.k = "num"
                    /\ IF i.indicatorType = "direct"
                       THEN i.current.n >= i.target.n /\ i.current.n > i.baseline.n
                       ELSE i.current.n <= i.target.n /\ i.current.n < i.baseline.n
        /\ calculateSummaryStats(indicators).targetAchievedButDeclining = 0
        /\ \A n \in 1..Len(indicators) :
              getStatusDisplay(indicators[n]) # "Target Achieved but Declining"
        /\ dashboard # NoDashboard =>
              /\ dashboard.stats.targetAchievedButDeclining = 0
              /\ \A n \in 1..Len(dashboard.labels) :
                    dashboard.labels[n] # "Target Achieved but Declining"

\* the 'Target Achieved' filter lists the card of an indicator of reverse
\* direction that reached its target, between indicators of other statuses
C27_Witness ==
    /\ StatusesCalculated
    /\ dashboard.statusFilter = "target-achieved"
    /\ dashboard.stats.targetAchieved = 1
    /\ dashboard.labels = <<"Target Achieved">>
    /\ Len(indicators) = 2
    /\ \E n \in 1..Len(indicators) :
          /\ indicators[n].status = "Target Achieved"
          /\ indicators[n].indicatorType = "reverse"

\* C29: with no domain selected, the count on the card of the active status
\* filter is the number of indicator cards listed under that filter
C29_CountEqualsListed ==
    (dashboard # NoDashboard /\ selectedDomain = "") =>
        getCount(dashboard.statusFilter, dashboard.stats) = Len(dashboard.cards)

---------------------------------------------------------------------------
(* Claims about the page as a whole, checked under SpecApp *)

\* no load, import or save is between its start and its end
NothingInFlight ==
    /\ load.pc \in {"idle", "done", "failed"}
    /\ (phase = "idle" /\ upload.pc = "idle") \/ upload.pc \in {"done", "failed"}
    /\ save.pc = "idle"

\* the load and the import that ended last have not failed
NothingFailed == load.pc # "failed" /\ upload.pc # "failed"

\* the values of an indicator that the claim compares, as the table holds them
ComparedFields(row) ==
    [id |-> row.id, current |-> row.current, baseline |-> row.baseline, target |-> row.target,
     status |-> row.status, time_series_data |-> row.time_series_data, details |-> row.details]

\* every indicator in memory has the values of the record stored under its id
MemoryMatchesStore ==
    \A n \in 1..Len(indicators) :
        \E row \in store : ComparedFields(row) = ComparedFields(ToRow(indicators[n]))

\* the ids of the records of a table
StoredIds(table) == {row.id : row \in table}

\* C28: with no failure, whenever no load, import or save is in flight, every
\* indicator in memory has the values of the record stored under its id; an
\* import that succeeds leaves the merged indicators of its file as the
\* list; and no step removes an id from the table
C28_MemoryIsStore ==
    [][ /\ (NothingInFlight' /\ NothingFailed') => MemoryMatchesStore'
        /\ (upload.pc # "done" /\ upload'.pc = "done") => indicators' = upload.mergedIndicators
        /\ StoredIds(store) \subseteq StoredIds(store') ]_vars

---------------------------------------------------------------------------
(* A claim about the rows that carry no point, checked under SpecFrame *)

\* the time series of the indicator of an id, empty when there is none yet
SeriesOrNone(pd, id) == IF HasIndicator(pd, id) THEN SeriesOf(pd, id) ELSE <<>>

\* the Total of the row does not parse to a number or its Year is empty
WithoutTotalOrYear(row) ==
    \/ ~Truthy(row.Total)
    \/ parseFloat(row.Total).k # "num"
    \/ row.Year = ""

\* C30: the iteration of processCSVData for a row whose Total does not parse
\* to a number or whose Year is empty leaves the time series of every
\* indicator as it was: no point, no disaggregation entry and no district
\* entry is added and no existing point changes, although the
\* disaggregation and district columns of the row are complete
C30_RowWithoutTotalOrYearAddsNothing ==
    [][ (phase = "running" /\ rowIdx <= Len(data) /\ rowIdx' = rowIdx + 1
         /\ WithoutTotalOrYear(data[rowIdx])) =>
            \A i \in 1..Len(processedData') :
                processedData'[i].timeSeriesData =
                    SeriesOrNone(processedData, processedData'[i].id) ]_vars

\* a row with a number as Total and a Year has made a point with its
\* entries, and the row after it, without a Total but with other complete
\* disaggregation and district columns, has been handled
C30_Witness ==
    /\ phase = "running"
    /\ rowIdx = 3
    /\ Len(data) >= 2
    /\ ~WithoutTotalOrYear(data[1])
    /\ WithoutTotalOrYear(data[2])
    /\ data[2].Year = data[1].Year
    /\ data[2].DisaggregationValue # data[1].DisaggregationValue
    /\ Len(processedData) = 1
    /\ Len(processedData[1].timeSeriesData) = 1
    /\ Len(processedData[1].timeSeriesData[1].disaggregation) = 1
    /\ Len(processedData[1].timeSeriesData[1].district_data) = 1

====
